---- MODULE Spec2Model ----
(***************************************************************************)
(* Job orchestration engine of the video studio page (src/src/app/page.tsx) *)
(* as a state machine: the job list held in React state, the runningJobs    *)
(* ref, the asynchronous continuations of handleGenerate and                *)
(* startJobExecution, and the effects that run after every change of the    *)
(* job list (persist effect, scheduler tick effect).                        *)
(*                                                                          *)
(* Scheduling model (React 19, single JS thread).  A setJobs call applies   *)
(* its functional update to the job list and schedules one render pass; the *)
(* pass and its passive effects run in a later task, so everything a        *)
(* continuation does synchronously after setJobs (the finally block that    *)
(* releases the slot, the microtask that resumes the awaiting caller) has   *)
(* happened before the effects read the list.  One action is therefore one  *)
(* task: a handler or continuation up to its next await on the network,     *)
(* and RunEffects is the pass that follows.                                 *)
(***************************************************************************)
EXTENDS Integers, Sequences, FiniteSets, TLC

\* ---------------------------------------------------------------- bounds
MaxJobs == 3        \* jobs submitted during one session
MaxFailures == 1    \* failing external calls over all jobs
MaxEvents == 1      \* provider status messages over all executions
MaxStored == 2      \* entries of the index slot found at startup

\* ------------------------------------------------------- program constants
MAX_CONCURRENT_JOBS == 2

Undefined == "undefined"

\* a JSON value that is present but is not a string (number, object, null)
NotAString == "#not-a-string"

\* typeof v === "string"
IsString(v) == v \notin {Undefined, NotAString}

\* !v for a value that is a string or undefined
Falsy(v) == v = Undefined \/ v = ""

\* the value map(...) returns for an entry it rejects
Null == [null |-> TRUE]

\* payload?: UnifiedPayload, when it is absent
NoPayload == [undefined |-> TRUE]

\* Model catalog: one model whose end-reference capability is enabled, one
\* whose capability flag is "unstable" and two that do not support it.
Models == {"m-end", "m-unstable", "m-none", "m-strict"}

\* model.supports.endFrame: boolean | "unstable" | "unspecified"
EndFrameSupport(modelId) ==
    CASE modelId = "m-end" -> "true"
      [] modelId = "m-unstable" -> "unstable"
      [] OTHER -> "false"

\* faulty variant: every flag but false counts as enabled
isSupportEnabledTruthy(flag) == flag # "false"

isSupportEnabled(flag) == flag = "true"

\* Identifiers.  Jobs submitted in this session are numbered from 1; 0 is
\* the identifier of a job of an earlier session; NoId stands for an id field
\* that is absent or not a string, and the identifiers createId hands out
\* during rehydration are the negative numbers below it.
NoId == 0 - 1
JobIds == (NoId - MaxStored)..(MaxJobs + 1)

\* createdAt of an index entry that is absent or not a number
NoTime == 0 - 1

DEFAULT_MODEL_ID == "m-end"

\* useState("downloads") for the save path, as the user has set it
downloadPath == "renders"

\* the prompt typed into the form (handleGenerate rejects an empty one)
Prompt == "a prompt"

\* ------------------------------------------------------------------ state
VARIABLES
    jobs,             \* useState<Job[]>: the job list, newest first
    runningJobs,      \* useRef(new Set<string>()): ids holding a slot
    jobsInitialized,  \* jobsInitializedRef.current
    effectsPending,   \* a render pass with its effects is scheduled
    stored,           \* localStorage["video-job-history"]
    pc,               \* per job: the await its continuation is suspended at
    upload,           \* per job: handleGenerate holds an end file to upload
    selectedModelId,  \* useState(DEFAULT_MODEL_ID): the model form control
    endFile,          \* useState<File | null>: an end file is selected
    resolution,       \* useState<string | undefined>: the resolution control
    call,             \* a call of a library function: arguments and result
    videos,           \* IndexedDB object store "videos", by key
    files,            \* the files of the server's out directory, by name
    history,          \* the store and server operations completed so far
    trace             \* per job: the statuses it has taken, in order

vars == <<jobs, runningJobs, jobsInitialized, effectsPending, stored, pc,
          upload, selectedModelId, endFile, resolution, call, videos, files,
          history, trace>>

\* what the page's handlers and effects never touch
aux == <<call, videos, files, history>>

\* the form controls are set before the first submission and then kept
form == <<selectedModelId, endFile, resolution>>

\* the state of the page
page == <<jobs, runningJobs, jobsInitialized, effectsPending, stored, pc,
          upload, form, trace>>

\* ---------------------------------------------------------------- helpers
RECURSIVE SelectSeqIdx(_, _, _)
SelectSeqIdx(s, Test(_), i) ==
    IF i > Len(s) THEN <<>>
    ELSE (IF Test(s[i]) THEN <<s[i]>> ELSE <<>>) \o SelectSeqIdx(s, Test, i + 1)

Filter(s, Test(_)) == SelectSeqIdx(s, Test, 1)

MapSeq(s, F(_)) == [i \in 1..Len(s) |-> F(s[i])]

\* { ...job, ...patch }
Merge(job, patch) ==
    [f \in DOMAIN job |-> IF f \in DOMAIN patch THEN patch[f] ELSE job[f]]

\* s.slice(-n)
\* faulty variant: the first ten messages are kept
Head10(s) == IF Len(s) <= 10 THEN s ELSE SubSeq(s, 1, 10)

Tail10(s) == IF Len(s) <= 10 THEN s ELSE SubSeq(s, Len(s) - 9, Len(s))

JobById(js, id) == js[CHOOSE i \in 1..Len(js) : js[i].id = id]

HasJob(js, id) == \E i \in 1..Len(js) : js[i].id = id

\* createId("job"): a fresh identifier (timestamp plus random suffix)
createId(js) == Cardinality({i \in 1..Len(js) : js[i].id > 0}) + 1

\* buildVideoFileName(job): deterministic in the job's identity
buildVideoFileName(job) == "file-" \o ToString(job.id)

LocalUrlOf(fileName) == "/assets/" \o fileName

\* ------------------------------------------------------ adapter registry
\* A ParamDefinition together with its key in model.params.  values is the
\* allowed set of an enum (hasValues: the field is present); default and
\* uiKey are Undefined when absent.
Param(key, type, required, hasValues, values, default, uiKey) ==
    [key |-> key, type |-> type, required |-> required,
     hasValues |-> hasValues, values |-> values, default |-> default,
     uiKey |-> uiKey]

SAFE_END_KEYS == {"tail_image_url", "last_frame_url"}

\* faulty variant: the payload is not read
LookupNothing(unified, key) == Undefined

\* unified[uiKey]
Lookup(unified, key) ==
    IF key \in DOMAIN unified THEN unified[key] ELSE Undefined

\* faulty variant: a supplied value is used whether it is allowed or not
coerceEnumValueUnchecked(value, allowed, fallback) ==
    IF value = Undefined THEN fallback ELSE value

coerceEnumValue(value, allowed, fallback) ==
    IF value = Undefined THEN fallback
    ELSE IF value \in allowed THEN value
    ELSE fallback

BuildError(message) == [ok |-> FALSE, input |-> <<>>, error |-> message]

\* buildFalInput: the loop over Object.entries(model.params), from the i-th
\* entry on, input being the request built so far
RECURSIVE MapParams(_, _, _, _)
MapParams(params, unified, i, input) ==
    IF i > Len(params) THEN [ok |-> TRUE, input |-> input, error |-> Undefined]
    ELSE IF params[i] = Null THEN MapParams(params, unified, i + 1, input)
    ELSE
    LET definition == params[i]
        paramKey == definition.key
        uiKey == IF definition.uiKey = Undefined THEN paramKey
                 ELSE definition.uiKey
        unifiedValue == Lookup(unified, uiKey)
        coerced == coerceEnumValue(unifiedValue, definition.values,
                                   definition.default)
    IN  IF definition.type = "enum" /\ definition.hasValues
        THEN IF coerced # Undefined
             THEN MapParams(params, unified, i + 1,
                            (paramKey :> coerced) @@ input)
             ELSE IF definition.required
             THEN BuildError("Missing required enum value for " \o paramKey)
             ELSE MapParams(params, unified, i + 1, input)
        ELSE IF unifiedValue # Undefined
        THEN MapParams(params, unified, i + 1,
                       (paramKey :> unifiedValue) @@ input)
        ELSE IF definition.default # Undefined
        THEN MapParams(params, unified, i + 1,
                       (paramKey :> definition.default) @@ input)
        ELSE IF definition.required
        THEN BuildError("Missing required param: " \o uiKey \o " -> "
                            \o paramKey)
        ELSE MapParams(params, unified, i + 1, input)

\* buildFalInput: "delete input[key]" for every key of SAFE_END_KEYS
StripEndKeys(input) ==
    [k \in (DOMAIN input) \ SAFE_END_KEYS |-> input[k]]

\* the argument the override adapter of an extra model is called with
AdapterArgs(unified) ==
    [prompt |-> unified.prompt, startUrl |-> unified.start_frame_url,
     endUrl |-> Lookup(unified, "end_frame_url")]

\* The request mapper of an extra model, applied to the arguments the
\* override adapter hands it.  It writes the end reference itself, under a
\* key the gating of buildFalInput would remove, and no other parameter.
ExtraMapInput(args) ==
    [prompt |-> args.prompt, image_url |-> args.startUrl,
     tail_image_url |-> args.endUrl]

\* adapter.mapInput of an extra model
mapInput(unified) == ExtraMapInput(AdapterArgs(unified))

\* faulty variant: the gating is applied to the override mapper's request too
buildFalInputGatesAdapter(model, unified) ==
    LET built == IF model.adapter
                 THEN [ok |-> TRUE, input |-> mapInput(unified),
                       error |-> Undefined]
                 ELSE MapParams(model.params, unified, 1, <<>>) IN
        IF ~built.ok THEN built
        ELSE IF ~isSupportEnabled(model.endFrame)
                \/ Falsy(Lookup(unified, "end_frame_url"))
        THEN [built EXCEPT !.input = StripEndKeys(built.input)]
        ELSE built

\* buildFalInput(model, unified): the request, or the error thrown
buildFalInput(model, unified) ==
    IF model.adapter
    THEN [ok |-> TRUE, input |-> mapInput(unified), error |-> Undefined]
    ELSE
    LET built == MapParams(model.params, unified, 1, <<>>) IN
        IF ~built.ok THEN built
        ELSE IF ~isSupportEnabled(model.endFrame)
        THEN [built EXCEPT !.input = StripEndKeys(built.input)]
        ELSE IF Falsy(Lookup(unified, "end_frame_url"))
        THEN [built EXCEPT !.input = StripEndKeys(built.input)]
        ELSE built

\* ------------------------------------------------- response extraction
\* The JSON values of a provider response, by what typeof says of them
\* (null apart: the code tests it apart).
Str(s) == [t |-> "string", s |-> s]
Num(n) == [t |-> "number", n |-> n]
Obj(f) == [t |-> "object", fields |-> f]
JsNull == [t |-> "null"]
JsUndefined == [t |-> "undefined"]

\* A dotted path is held as the pieces between its dots ("video..url" is
\* <<"video", "", "url">>); getPathSegments drops the empty pieces.
getPathSegments(path) == SelectSeq(path, LAMBDA segment : segment # "")

\* current[segment]
Member(current, segment) ==
    IF segment \in DOMAIN current.fields
    THEN current.fields[segment]
    ELSE JsUndefined

\* the loop of extractVideoUrl from segment i on, and its final test
RECURSIVE Walk(_, _, _)
Walk(segments, i, current) ==
    IF i > Len(segments)
    THEN IF current.t = "string" THEN current.s ELSE Undefined
    ELSE IF current.t # "object"
    THEN Undefined
    ELSE Walk(segments, i + 1, Member(current, segments[i]))

\* The response extractor of an extra model: it reads the URL where that
\* provider puts it, which is not where the output path points.
ExtraGetVideoUrl(data) == Walk(<<"output">>, 1, data)

\* faulty variant: the output path is walked although the model has an
\* override extractor
extractVideoUrlWalksAlways(model, data) ==
    Walk(getPathSegments(model.videoPath), 1, data)

\* faulty variant: a response without URL yields a substitute
extractVideoUrlSubstitutes(model, data) ==
    LET url == IF model.adapter
               THEN ExtraGetVideoUrl(data)
               ELSE Walk(getPathSegments(model.videoPath), 1, data) IN
        IF url = Undefined THEN "https://cdn/placeholder.mp4" ELSE url

\* extractVideoUrl(model, data): the URL, or Undefined
extractVideoUrl(model, data) ==
    IF model.adapter
    THEN ExtraGetVideoUrl(data)
    ELSE Walk(getPathSegments(model.videoPath), 1, data)

\* Provider responses.  The result URL sits at video.url, or where an extra
\* model's extractor reads it, or nowhere.
ResultUrl == "remote-url"
GoodResponse == Obj([video |-> Obj([url |-> Str(ResultUrl)])])
NoVideoResponse == Obj([request_id |-> Str("r-1")])
NoUrlResponse == Obj([video |-> Obj([content_type |-> Str("video/mp4")])])
NullVideoResponse == Obj([video |-> JsNull])
TextVideoResponse == Obj([video |-> Str("https://cdn/v.mp4")])
NumberUrlResponse == Obj([video |-> Obj([url |-> Num(7)])])
ObjectUrlResponse == Obj([video |-> Obj([url |-> Obj([href |-> Str("h")])])])
EmptyUrlResponse == Obj([video |-> Obj([url |-> Str("")])])
ExtraResponse ==
    Obj([output |-> Str("https://cdn/extra.mp4"),
         video |-> Obj([url |-> Str("https://cdn/preview.mp4")])])

\* responses in which the walk along video.url does not reach a string
UrlLessResponses ==
    {NoVideoResponse, NoUrlResponse, NullVideoResponse, TextVideoResponse,
     NumberUrlResponse, ObjectUrlResponse, JsNull, JsUndefined,
     Str("https://cdn/v.mp4")}

Responses ==
    UrlLessResponses \cup {GoodResponse, EmptyUrlResponse, ExtraResponse}

\* The catalog entries of the models of the form.
PromptParam == Param("prompt", "string", TRUE, FALSE, {}, Undefined, Undefined)
StartParam ==
    Param("image_url", "string", TRUE, FALSE, {}, Undefined, "start_frame_url")
TailParam ==
    Param("tail_image_url", "string", FALSE, FALSE, {}, Undefined,
          "end_frame_url")
Resolutions == {"720p", "1080p"}
ResolutionParam(required, default) ==
    Param("resolution", "enum", required, TRUE, Resolutions, default, Undefined)

\* getModelSpec(modelId); m-strict declares a required resolution without
\* default
ModelSpecOf(modelId) ==
    [id |-> modelId, endFrame |-> EndFrameSupport(modelId), adapter |-> FALSE,
     videoPath |-> <<"video", "url">>,
     params |->
        IF modelId = "m-strict"
        THEN <<PromptParam, StartParam, ResolutionParam(TRUE, Undefined)>>
        ELSE IF modelId = "m-none"
        THEN <<PromptParam, StartParam, ResolutionParam(FALSE, "1080p")>>
        ELSE <<PromptParam, StartParam, TailParam,
               ResolutionParam(FALSE, "1080p")>>]

\* runFal throws before it reaches the provider: the request of the job
\* cannot be built
BuildFails(job) ==
    /\ job.payload # NoPayload
    /\ ~buildFalInput(ModelSpecOf(job.modelId), job.payload).ok

\* ------------------------------------------------------ video store
\* The IndexedDB database of lib/storage: the records of the object store
\* "videos" by key, and the transactions created on the one connection and
\* not yet run.  Transactions on the same store run in the order of their
\* creation.
EmptyStore == [records |-> <<>>, transactions |-> <<>>]

\* faulty variant: a record is added only if the key is free
putIfAbsent(records, key, blob) ==
    [k \in DOMAIN records \cup {key} |->
        IF k \in DOMAIN records THEN records[k]
        ELSE [key |-> key, blob |-> blob]]

\* store.put({ key, blob, createdAt }) under keyPath "key"; createdAt is
\* read by nothing and left out
put(records, key, blob) ==
    [k \in DOMAIN records \cup {key} |->
        IF k = key THEN [key |-> key, blob |-> blob] ELSE records[k]]

\* store.delete(key)
delete(records, key) == [k \in DOMAIN records \ {key} |-> records[k]]

\* store.get(key), then result?.blob
get(records, key) ==
    IF key \in DOMAIN records THEN records[key].blob ELSE Undefined

\* ------------------------------------------------------ job list updates
\* faulty variant: the patch is merged into every job of the list
notifyJobUpdateAll(js, jobId, patch) ==
    [i \in 1..Len(js) |-> Merge(js[i], patch)]

notifyJobUpdate(js, jobId, patch) ==
    [i \in 1..Len(js) |->
        IF js[i].id # jobId THEN js[i] ELSE Merge(js[i], patch)]

\* faulty variant: the job is queued without its payload
enqueueJobStatusOnly(js, jobId, payload) ==
    [i \in 1..Len(js) |->
        IF js[i].id = jobId THEN Merge(js[i], [status |-> "queued"])
        ELSE js[i]]

enqueueJob(js, jobId, payload) ==
    [i \in 1..Len(js) |->
        IF js[i].id = jobId
        THEN Merge(js[i], [status |-> "queued", payload |-> payload])
        ELSE js[i]]

\* handleGenerate and prepareJobPayload: the payload handed to enqueueJob
UnifiedPayload(job, startUrl, endUrl) ==
    [modelId |-> job.modelId, prompt |-> job.prompt,
     start_frame_url |-> startUrl, end_frame_url |-> endUrl,
     resolution |-> resolution]

\* client.storage.upload rejected (extractUploadUrl's results are the others)
Rejected == "#rejected"

\* faulty variant: only a missing URL is refused, an empty one is accepted
UploadFailedIfMissing(outcome) == outcome = Rejected \/ outcome = Undefined

\* prepareJobPayload: the upload threw, or "if (!startUrl) throw ..."
UploadFailed(outcome) == outcome = Rejected \/ Falsy(outcome)

\* what a continuation of handleGenerate holds while it is suspended: the
\* end file still to upload and the start URL already obtained
NoUpload == [end |-> FALSE, startUrl |-> Undefined]

NewJob(id, modelId) ==
    [id |-> id, modelId |-> modelId, prompt |-> Prompt, createdAt |-> id,
     storagePath |-> (IF downloadPath = "" THEN "downloads" ELSE downloadPath),
     status |-> "uploading", attempts |-> 0,
     payload |-> NoPayload, error |-> Undefined, events |-> <<>>,
     videoUrl |-> Undefined, localKey |-> Undefined, localUrl |-> Undefined,
     saving |-> FALSE, saved |-> FALSE, saveError |-> Undefined]

\* ------------------------------------------------------ persisted index
\* The slot localStorage["video-job-history"]: absent, a text JSON.parse
\* rejects, a JSON value that is not an array, or an array of entries.
EmptySlot == [kind |-> "absent", items |-> <<>>]
ArraySlot(items) == [kind |-> "array", items |-> items]

\* faulty variant: a job counts as completed as soon as it has a file name
IsCompletedWithKey(job) ==
    job.status = "success" /\ ~Falsy(job.localKey)

\* persistStoredJobs: the predicate of jobs.filter(...)
IsCompleted(job) ==
    job.status = "success" /\ ~Falsy(job.localKey) /\ ~Falsy(job.localUrl)

\* faulty variant: the record is written without prompt and storage path
ToStoredRecordShort(job) ==
    [object |-> TRUE, id |-> job.id, modelId |-> job.modelId,
     prompt |-> Undefined, createdAt |-> job.createdAt,
     events |-> Tail10(job.events), localKey |-> job.localKey,
     localUrl |-> job.localUrl, storagePath |-> Undefined]

\* persistStoredJobs: the record written for one job (JSON.stringify keeps
\* strings and finite numbers as they are and leaves out undefined fields)
ToStoredRecord(job) ==
    [object |-> TRUE, id |-> job.id, modelId |-> job.modelId,
     prompt |-> job.prompt, createdAt |-> job.createdAt,
     events |-> Tail10(job.events), localKey |-> job.localKey,
     localUrl |-> job.localUrl, storagePath |-> job.storagePath]

\* persistStoredJobs(jobs): the new content of the index slot
persistStoredJobs(js) ==
    IF Len(Filter(js, IsCompleted)) = 0
    THEN EmptySlot
    ELSE ArraySlot(MapSeq(Filter(js, IsCompleted), ToStoredRecord))

\* faulty variant: an entry is admitted on its access URL alone
IsValidEntryUrlOnly(entry) ==
    /\ entry.object
    /\ ~Falsy(IF IsString(entry.localUrl) THEN entry.localUrl ELSE Undefined)

\* loadStoredJobs: the tests an entry passes before a job is built from it
IsValidEntry(entry) ==
    /\ entry.object
    /\ ~Falsy(IF IsString(entry.localUrl) THEN entry.localUrl ELSE Undefined)
    /\ ~Falsy(IF IsString(entry.localKey) THEN entry.localKey ELSE Undefined)

\* loadStoredJobs: the callback of data.map(...), for the entry at position i
FromStoredRecord(entry, i) ==
    IF ~IsValidEntry(entry) THEN Null
    ELSE
    [id |-> IF entry.id # NoId THEN entry.id ELSE NoId - i,
     modelId |-> IF IsString(entry.modelId) THEN entry.modelId
                 ELSE DEFAULT_MODEL_ID,
     prompt |-> IF IsString(entry.prompt) THEN entry.prompt ELSE "",
     createdAt |-> IF entry.createdAt # NoTime THEN entry.createdAt ELSE 0,
     storagePath |-> IF IsString(entry.storagePath) THEN entry.storagePath
                     ELSE "downloads",
     status |-> "success",
     attempts |-> 1, payload |-> NoPayload, error |-> Undefined,
     events |-> Tail10(entry.events), videoUrl |-> entry.localUrl,
     localKey |-> entry.localKey, localUrl |-> entry.localUrl,
     saving |-> FALSE, saved |-> TRUE, saveError |-> Undefined]

NotNull(job) == job # Null

\* loadStoredJobs(): the history built from the content of the slot
loadStoredJobs(slot) ==
    IF slot.kind # "array" THEN <<>>
    ELSE Filter([i \in 1..Len(slot.items) |->
                    FromStoredRecord(slot.items[i], i)], NotNull)

\* ------------------------------------------------------------ scheduler
\* faulty variant: the bound compared with > instead of >=
TickBlockedOffByOne(running) == Cardinality(running) > MAX_CONCURRENT_JOBS

\* faulty variant: the tick gives up one slot too early
TickBlockedEarly(running) == Cardinality(running) >= MAX_CONCURRENT_JOBS - 1

\* tick effect: "if (running >= MAX_CONCURRENT_JOBS) return"
TickBlocked(running) == Cardinality(running) >= MAX_CONCURRENT_JOBS

\* faulty variant: the scan also selects jobs still uploading
IsEligibleAnyWaiting(job, running) ==
    job.status \in {"queued", "uploading"} /\ job.id \notin running

\* faulty variant: the scan goes by the status alone
IsEligibleByStatus(job, running) == job.status = "queued"

\* tick effect: the predicate of jobs.find(...)
IsEligible(job, running) == job.status = "queued" /\ job.id \notin running

\* faulty variant: the scan takes the eligible job nearest the end
NextJobIndexLast(js, running) ==
    IF \E i \in 1..Len(js) : IsEligible(js[i], running)
    THEN CHOOSE i \in 1..Len(js) :
            /\ IsEligible(js[i], running)
            /\ \A k \in (i + 1)..Len(js) : ~IsEligible(js[k], running)
    ELSE 0

\* jobs.find(...): index of the first eligible job, 0 when there is none
NextJobIndex(js, running) ==
    IF \E i \in 1..Len(js) : IsEligible(js[i], running)
    THEN CHOOSE i \in 1..Len(js) :
            /\ IsEligible(js[i], running)
            /\ \A k \in 1..(i - 1) : ~IsEligible(js[k], running)
    ELSE 0

\* faulty variant: the execution start does not count the attempt
StartPatchNoCount(job) == [status |-> "running", attempts |-> job.attempts]

\* startJobExecution: the patch applied when an execution starts
StartPatch(job) == [status |-> "running", attempts |-> job.attempts + 1]

\* startJobExecution: the patch applied when runFal has resolved
\* faulty variant: the job counts as saved as soon as the provider is done
SuccessPatchMarksSaved(job, url) ==
    [status |-> "success", videoUrl |-> url, saving |-> TRUE, saved |-> TRUE,
     localKey |-> buildVideoFileName(job), localUrl |-> Undefined,
     saveError |-> Undefined]

SuccessPatch(job, url) ==
    [status |-> "success", videoUrl |-> url, saving |-> TRUE, saved |-> FALSE,
     localKey |-> buildVideoFileName(job), localUrl |-> Undefined,
     saveError |-> Undefined]

\* startJobExecution: the patch applied in its catch block
FailurePatch(message) == [status |-> "error", error |-> message]

\* faulty variant: the saved patch omits the local access URL
SavedPatchNoUrl(fileName) ==
    [saving |-> FALSE, saved |-> TRUE, localKey |-> fileName,
     saveError |-> Undefined]

\* persistVideoAsset: the patch applied after the asset was stored
SavedPatch(fileName) ==
    [saving |-> FALSE, saved |-> TRUE, localKey |-> fileName,
     localUrl |-> LocalUrlOf(fileName), videoUrl |-> LocalUrlOf(fileName),
     saveError |-> Undefined]

\* faulty variant: a failed save marks the job itself failed
SaveFailedPatchFailsJob(message) ==
    [status |-> "error", saving |-> FALSE, saved |-> FALSE,
     saveError |-> message]

\* persistVideoAsset: the patch applied in its catch block
SaveFailedPatch(message) ==
    [saving |-> FALSE, saved |-> FALSE, saveError |-> message]

\* faulty variant: the Retry button is shown for any job with a payload
CanRetryAnyStatus(job) == job.payload # NoPayload

\* Retry button: rendered only for a failed job that has a payload
CanRetry(job) == job.status = "error" /\ job.payload # NoPayload

\* faulty variant: retry resets the attempt counter
RetryPatchResets == [status |-> "queued", error |-> Undefined, attempts |-> 0]

\* handleRetry: the patch it applies
RetryPatch == [status |-> "queued", error |-> Undefined]

\* handleRetry(job): the job list after the handler has run
handleRetry(js, job) ==
    IF job.payload = NoPayload THEN js
    ELSE notifyJobUpdate(js, job.id, RetryPatch)

\* ------------------------------------------------------ observation
\* trace records, per job, every value its status takes
Observe(tr, old, new) ==
    [id \in JobIds |->
        IF ~HasJob(new, id) THEN tr[id]
        ELSE IF ~HasJob(old, id) THEN <<JobById(new, id).status>>
        ELSE IF JobById(new, id).status # JobById(old, id).status
             THEN Append(tr[id], JobById(new, id).status)
             ELSE tr[id]]

RECURSIVE SumOver(_, _, _)
SumOver(js, F(_), i) ==
    IF i > Len(js) THEN 0 ELSE F(js[i]) + SumOver(js, F, i + 1)

\* external calls that have failed for a job: a failed upload leaves it in
\* error without payload, every start but the last was ended by a failure,
\* as was the last one when the job is in error or queued again, and a
\* failed save leaves saveError set
FailuresOf(job) ==
    IF job.attempts = 0
    THEN (IF job.status = "error" THEN 1 ELSE 0)
    ELSE job.attempts - 1
         + (IF job.status \in {"error", "queued"} THEN 1 ELSE 0)
         + (IF job.saveError # Undefined THEN 1 ELSE 0)

MayFail == SumOver(jobs, FailuresOf, 1) < MaxFailures
EventCountOf(job) == Len(job.events)

\* ------------------------------------------------------------------ Init
ValidEntry ==
    [object |-> TRUE, id |-> 0, modelId |-> "m-end", prompt |-> "old prompt",
     createdAt |-> 0, events |-> <<>>, localKey |-> "file-0",
     localUrl |-> "/assets/file-0", storagePath |-> "downloads"]

InitialIndexes == {EmptySlot, ArraySlot(<<ValidEntry>>)}

\* What the form holds in a session: the model, whether an end file is
\* selected, and the resolution control, which starts at the model's default
\* and takes the values its select offers.
Sessions ==
    {<<"m-end", TRUE, "720p">>, <<"m-end", FALSE, "1080p">>,
     <<"m-unstable", TRUE, "1080p">>, <<"m-none", TRUE, "720p">>,
     <<"m-strict", FALSE, Undefined>>, <<"m-strict", TRUE, "720p">>}

Init ==
    /\ jobs = <<>>
    /\ runningJobs = {}
    /\ jobsInitialized = FALSE
    /\ effectsPending = FALSE
    /\ stored \in InitialIndexes
    /\ pc = [id \in JobIds |-> "idle"]
    /\ upload = [id \in JobIds |-> NoUpload]
    /\ \E session \in Sessions :
        /\ selectedModelId = session[1]
        /\ endFile = session[2]
        /\ resolution = session[3]
    /\ call = Null
    /\ videos = EmptyStore /\ files = <<>> /\ history = <<>>
    /\ trace = [id \in JobIds |-> <<>>]

\* ---------------------------------------------------------------- actions
\* First pass after construction: the mount effect rehydrates the history,
\* the persist effect only arms jobsInitializedRef, the tick finds no job.
\* faulty variant: the first run of the persist effect writes the list it is
\* given, the initial empty one
MountWritesFirst ==
    /\ ~jobsInitialized
    /\ jobsInitialized' = TRUE
    /\ stored' = persistStoredJobs(jobs)
    /\ LET storedJobs == loadStoredJobs(stored) IN
        IF Len(storedJobs) > 0
        THEN jobs' = storedJobs /\ effectsPending' = TRUE
        ELSE jobs' = jobs /\ effectsPending' = effectsPending
    /\ trace' = Observe(trace, jobs, jobs')
    /\ UNCHANGED <<runningJobs, pc, upload, form, aux>>

Mount ==
    /\ ~jobsInitialized
    /\ jobsInitialized' = TRUE
    /\ LET storedJobs == loadStoredJobs(stored) IN
        IF Len(storedJobs) > 0
        THEN jobs' = storedJobs /\ effectsPending' = TRUE
        ELSE jobs' = jobs /\ effectsPending' = effectsPending
    /\ trace' = Observe(trace, jobs, jobs')
    /\ UNCHANGED <<runningJobs, stored, pc, upload, form, aux>>

\* handleGenerate up to its first await: the job is put at the front of the
\* list in status uploading and the start reference upload is issued.
Submit ==
    /\ jobsInitialized
    /\ createId(jobs) <= MaxJobs
    /\ LET id == createId(jobs) IN
        /\ jobs' = <<NewJob(id, selectedModelId)>> \o jobs
        /\ pc' = [pc EXCEPT ![id] = "upStart"]
        /\ upload' = [upload EXCEPT ![id] = [NoUpload EXCEPT !.end = endFile]]
    /\ effectsPending' = TRUE
    /\ trace' = Observe(trace, jobs, jobs')
    /\ UNCHANGED <<runningJobs, jobsInitialized, stored, form, aux>>

\* prepareJobPayload resumes after client.storage.upload(start); outcome is
\* the rejection or what extractUploadUrl returns.
UploadStartDone(id, outcome) ==
    /\ pc[id] = "upStart"
    /\ UploadFailed(outcome) => MayFail
    /\ LET job == JobById(jobs, id) IN
        IF UploadFailed(outcome)
        THEN \* thrown, caught by handleGenerate
             /\ jobs' = notifyJobUpdate(jobs, id,
                            FailurePatch("Unable to upload start frame."))
             /\ pc' = [pc EXCEPT ![id] = "idle"]
             /\ upload' = [upload EXCEPT ![id] = NoUpload]
             /\ effectsPending' = TRUE
        ELSE IF upload[id].end /\ isSupportEnabled(EndFrameSupport(job.modelId))
        THEN \* second upload issued, nothing written yet
             /\ pc' = [pc EXCEPT ![id] = "upEnd"]
             /\ upload' = [upload EXCEPT ![id].startUrl = outcome]
             /\ UNCHANGED <<jobs, effectsPending>>
        ELSE /\ jobs' = enqueueJob(jobs, id,
                            UnifiedPayload(job, outcome, Undefined))
             /\ pc' = [pc EXCEPT ![id] = "idle"]
             /\ upload' = [upload EXCEPT ![id] = NoUpload]
             /\ effectsPending' = TRUE
    /\ trace' = Observe(trace, jobs, jobs')
    /\ UNCHANGED <<runningJobs, jobsInitialized, stored, form, aux>>

\* prepareJobPayload resumes after client.storage.upload(end).
UploadEndDone(id, outcome) ==
    /\ pc[id] = "upEnd"
    /\ UploadFailed(outcome) => MayFail
    /\ IF UploadFailed(outcome)
       THEN jobs' = notifyJobUpdate(jobs, id,
                        FailurePatch("Unable to upload end frame."))
       ELSE jobs' = enqueueJob(jobs, id,
                        UnifiedPayload(JobById(jobs, id),
                                       upload[id].startUrl, outcome))
    /\ pc' = [pc EXCEPT ![id] = "idle"]
    /\ upload' = [upload EXCEPT ![id] = NoUpload]
    /\ effectsPending' = TRUE
    /\ trace' = Observe(trace, jobs, jobs')
    /\ UNCHANGED <<runningJobs, jobsInitialized, stored, form, aux>>

\* faulty variant: the execution start does not take a slot
StartSlotsForgets(running, job) == running

\* startJobExecution(job) up to its await on runFal: the slots and the job
\* list after the call.
StartSlots(running, job) ==
    IF job.payload = NoPayload THEN running ELSE running \cup {job.id}

StartJobs(js, job) ==
    IF job.payload = NoPayload THEN js
    ELSE notifyJobUpdate(js, job.id, StartPatch(job))

\* One render pass: the persist effect writes the index, then the tick effect
\* starts at most one queued job.
RunEffects ==
    /\ jobsInitialized
    /\ effectsPending
    /\ stored' = persistStoredJobs(jobs)
    /\ LET n == NextJobIndex(jobs, runningJobs) IN
        IF TickBlocked(runningJobs) \/ n = 0
        THEN /\ effectsPending' = FALSE
             /\ UNCHANGED <<jobs, runningJobs, pc>>
        ELSE /\ runningJobs' = StartSlots(runningJobs, jobs[n])
             /\ jobs' = StartJobs(jobs, jobs[n])
             /\ pc' = [pc EXCEPT ![jobs[n].id] =
                          IF jobs[n].payload = NoPayload THEN @ ELSE "run"]
             /\ effectsPending' = (jobs[n].payload # NoPayload)
    /\ trace' = Observe(trace, jobs, jobs')
    /\ UNCHANGED <<jobsInitialized, upload, form, aux>>

\* onQueueUpdate callback: one provider status message arrives.
ProviderEvent(id, message) ==
    /\ pc[id] = "run"
    /\ ~BuildFails(JobById(jobs, id))
    /\ SumOver(jobs, EventCountOf, 1) < MaxEvents
    /\ jobs' = notifyJobUpdate(jobs, id,
                   [events |-> Append(JobById(jobs, id).events, message)])
    /\ effectsPending' = TRUE
    /\ trace' = Observe(trace, jobs, jobs')
    /\ UNCHANGED <<runningJobs, jobsInitialized, stored, pc, upload, form, aux>>

\* client.subscribe resolves with the provider's response.  With a result
\* URL in it the job succeeds and persistVideoAsset issues the fetch of the
\* remote result, which startJobExecution awaits; without one runFal throws,
\* catch marks the job failed and finally releases the slot.
ProviderResolve(id, data) ==
    LET job == JobById(jobs, id)
        url == extractVideoUrl(ModelSpecOf(job.modelId), data) IN
    /\ pc[id] = "run"
    /\ ~BuildFails(job)
    /\ IF ~Falsy(url)
       THEN /\ jobs' = notifyJobUpdate(jobs, id, SuccessPatch(job, url))
            /\ pc' = [pc EXCEPT ![id] = "fetch"]
            /\ UNCHANGED runningJobs
       ELSE /\ MayFail
            /\ jobs' = notifyJobUpdate(jobs, id,
                           FailurePatch("Video URL not found in response"))
            /\ runningJobs' = runningJobs \ {id}
            /\ pc' = [pc EXCEPT ![id] = "idle"]
    /\ effectsPending' = TRUE
    /\ trace' = Observe(trace, jobs, jobs')
    /\ UNCHANGED <<jobsInitialized, stored, upload, form, aux>>

\* runFal throws: buildFalInput has thrown (always, when the request of the
\* job cannot be built), or the provider failed, or the result has no URL;
\* catch marks the job failed, finally releases the slot.  The rejection
\* reaches the await of startJobExecution in a later microtask than the
\* patch to running, hence in a step of its own.
ProviderReject(id) ==
    /\ pc[id] = "run"
    /\ BuildFails(JobById(jobs, id)) \/ MayFail
    /\ jobs' = notifyJobUpdate(jobs, id, FailurePatch("Generation failed."))
    /\ runningJobs' = runningJobs \ {id}
    /\ pc' = [pc EXCEPT ![id] = "idle"]
    /\ effectsPending' = TRUE
    /\ trace' = Observe(trace, jobs, jobs')
    /\ UNCHANGED <<jobsInitialized, stored, upload, form, aux>>

\* persistVideoAsset resumes after fetch(videoUrl).
FetchDone(id, ok) ==
    /\ pc[id] = "fetch"
    /\ ~ok => MayFail
    /\ IF ok
       THEN \* POST /api/assets issued
            /\ pc' = [pc EXCEPT ![id] = "save"]
            /\ UNCHANGED <<jobs, runningJobs, effectsPending>>
       ELSE /\ jobs' = notifyJobUpdate(jobs, id,
                           SaveFailedPatch("Failed to fetch video"))
            /\ runningJobs' = runningJobs \ {id}
            /\ pc' = [pc EXCEPT ![id] = "idle"]
            /\ effectsPending' = TRUE
    /\ trace' = Observe(trace, jobs, jobs')
    /\ UNCHANGED <<jobsInitialized, stored, upload, form, aux>>

\* persistVideoAsset resumes after the POST to /api/assets; it returns and
\* startJobExecution's finally releases the slot.
SaveDone(id, ok) ==
    /\ pc[id] = "save"
    /\ ~ok => MayFail
    /\ jobs' = notifyJobUpdate(jobs, id,
                   IF ok
                   THEN SavedPatch(buildVideoFileName(JobById(jobs, id)))
                   ELSE SaveFailedPatch("Failed to persist video locally."))
    /\ runningJobs' = runningJobs \ {id}
    /\ pc' = [pc EXCEPT ![id] = "idle"]
    /\ effectsPending' = TRUE
    /\ trace' = Observe(trace, jobs, jobs')
    /\ UNCHANGED <<jobsInitialized, stored, upload, form, aux>>

\* The user clicks Retry on the i-th job of the list.
Retry(i) ==
    /\ i \in 1..Len(jobs)
    /\ CanRetry(jobs[i])
    /\ SumOver(jobs, FailuresOf, 1) <= MaxFailures
    /\ jobs' = handleRetry(jobs, jobs[i])
    /\ effectsPending' = TRUE
    /\ trace' = Observe(trace, jobs, jobs')
    /\ UNCHANGED <<runningJobs, jobsInitialized, stored, pc, upload, form, aux>>

UploadUrl == "https://storage/upload"
UploadOutcomes == {Rejected, Undefined, "", UploadUrl}
Messages == {"IN_QUEUE", "IN_PROGRESS"}
PageResponses ==
    {GoodResponse, NoVideoResponse, NumberUrlResponse, NullVideoResponse,
     EmptyUrlResponse}

Next ==
    \/ Mount
    \/ Submit
    \/ \E id \in JobIds, o \in UploadOutcomes : UploadStartDone(id, o)
    \/ \E id \in JobIds, o \in UploadOutcomes : UploadEndDone(id, o)
    \/ RunEffects
    \/ \E id \in JobIds, m \in Messages : ProviderEvent(id, m)
    \/ \E id \in JobIds, data \in PageResponses : ProviderResolve(id, data)
    \/ \E id \in JobIds : ProviderReject(id)
    \/ \E id \in JobIds, ok \in BOOLEAN : FetchDone(id, ok)
    \/ \E id \in JobIds, ok \in BOOLEAN : SaveDone(id, ok)
    \/ \E i \in 1..(MaxJobs + 1) : Retry(i)

Spec == Init /\ [][Next]_vars

TypeOK ==
    /\ runningJobs \subseteq JobIds
    /\ \A i \in 1..Len(jobs) :
        jobs[i].status \in {"uploading", "queued", "running", "success", "error"}

\* the page has not been opened: the state the library functions are
\* called in when they are exercised alone
PageClosed ==
    /\ jobs = <<>>
    /\ runningJobs = {}
    /\ jobsInitialized = FALSE
    /\ effectsPending = FALSE
    /\ stored = EmptySlot
    /\ pc = [id \in JobIds |-> "idle"]
    /\ upload = [id \in JobIds |-> NoUpload]
    /\ selectedModelId = DEFAULT_MODEL_ID
    /\ endFile = FALSE
    /\ resolution = "1080p"
    /\ trace = [id \in JobIds |-> <<>>]

\* ------------------------------------------------- a talkative provider
\* The provider reports its status again and again while one job runs.
MaxLog == 11

\* onQueueUpdate callback, with the budget of this scenario
StatusMessage(id, message) ==
    /\ pc[id] = "run"
    /\ ~BuildFails(JobById(jobs, id))
    /\ Len(JobById(jobs, id).events) < MaxLog
    /\ jobs' = notifyJobUpdate(jobs, id,
                   [events |-> Append(JobById(jobs, id).events, message)])
    /\ effectsPending' = TRUE
    /\ trace' = Observe(trace, jobs, jobs')
    /\ UNCHANGED <<runningJobs, jobsInitialized, stored, pc, upload, form, aux>>

\* ------------------------------------------------- scenario and fairness
\* the request of a job submitted from the form can be built
FormValid ==
    buildFalInput(ModelSpecOf(selectedModelId),
                  [modelId |-> selectedModelId, prompt |-> Prompt,
                   start_frame_url |-> UploadUrl, end_frame_url |-> Undefined,
                   resolution |-> resolution]).ok

\* Scenario A: one job with valid inputs is submitted into an empty history
\* and no external call fails; every call that was issued completes.
InitA == Init /\ stored = EmptySlot /\ FormValid

NextA ==
    \/ Mount
    \/ (Len(jobs) = 0 /\ Submit)
    \/ \E id \in JobIds : UploadStartDone(id, UploadUrl)
    \/ \E id \in JobIds : UploadEndDone(id, UploadUrl)
    \/ RunEffects
    \/ \E id \in JobIds, m \in Messages : ProviderEvent(id, m)
    \/ \E id \in JobIds : ProviderResolve(id, GoodResponse)
    \/ \E id \in JobIds : FetchDone(id, TRUE)
    \/ \E id \in JobIds : SaveDone(id, TRUE)

SpecA == InitA /\ [][NextA]_vars /\ WF_vars(NextA)

\* Scenario A with a provider that keeps reporting IN_PROGRESS
NextEvents ==
    \/ Mount
    \/ (Len(jobs) = 0 /\ Submit)
    \/ \E id \in JobIds : UploadStartDone(id, UploadUrl)
    \/ \E id \in JobIds : UploadEndDone(id, UploadUrl)
    \/ RunEffects
    \/ \E id \in JobIds : StatusMessage(id, "IN_PROGRESS")
    \/ \E id \in JobIds : ProviderResolve(id, GoodResponse)
    \/ \E id \in JobIds : FetchDone(id, TRUE)
    \/ \E id \in JobIds : SaveDone(id, TRUE)

SpecEvents == InitA /\ [][NextEvents]_vars

\* The job list of a render in which the start of the jobs in S does not
\* show yet: they are still queued, the attempt not counted
Earlier(js, S) ==
    [i \in 1..Len(js) |->
        IF js[i].id \in S /\ js[i].status = "running"
        THEN Merge(js[i], [status |-> "queued",
                           attempts |-> js[i].attempts - 1])
        ELSE js[i]]

\* The tick effect runs on the job list of an earlier render, with the
\* slots as they are now (runningJobs is a ref), and starts the job it
\* finds; a start of a job whose execution is in flight is a second
\* execution of it ("twice").
StaleTick ==
    /\ jobsInitialized
    /\ \E S \in SUBSET runningJobs :
        LET view == Earlier(jobs, S)
            n == NextJobIndex(view, runningJobs)
        IN  /\ S # {}
            /\ ~TickBlocked(runningJobs)
            /\ n # 0
            /\ view[n].payload # NoPayload
            /\ runningJobs' = StartSlots(runningJobs, view[n])
            /\ jobs' = StartJobs(jobs, view[n])
            /\ pc' = [pc EXCEPT ![view[n].id] =
                         IF @ = "idle" THEN "run" ELSE "twice"]
    /\ effectsPending' = TRUE
    /\ trace' = Observe(trace, jobs, jobs')
    /\ UNCHANGED <<jobsInitialized, stored, upload, form, aux>>

\* The page with ticks that run on an earlier job list
NextTick ==
    \/ Mount
    \/ Submit
    \/ \E id \in JobIds : UploadStartDone(id, UploadUrl)
    \/ \E id \in JobIds : UploadEndDone(id, UploadUrl)
    \/ RunEffects
    \/ StaleTick
    \/ \E id \in JobIds : ProviderResolve(id, GoodResponse)
    \/ \E id \in JobIds : ProviderReject(id)
    \/ \E id \in JobIds : FetchDone(id, TRUE)
    \/ \E id \in JobIds : SaveDone(id, TRUE)
    \/ \E i \in 1..MaxJobs : Retry(i)

SpecTick == InitA /\ [][NextTick]_vars

\* the k-th status message a provider sends during the executions of a job
\* is unlike the others
ProviderSays(id) ==
    "update-" \o ToString(Len(JobById(jobs, id).events) + 1)

\* The page is loaded again: the component state starts afresh, the
\* executions of the page before are gone, the index is what it was.
\* (The identifiers of the index are the first ones, so that createId
\* stays fresh on the new page.)
Reload ==
    /\ jobsInitialized
    /\ \A k \in 1..Len(stored.items) : stored.items[k].id \in 1..Len(stored.items)
    /\ jobs' = <<>>
    /\ runningJobs' = {}
    /\ jobsInitialized' = FALSE
    /\ effectsPending' = FALSE
    /\ pc' = [id \in JobIds |-> "idle"]
    /\ upload' = [id \in JobIds |-> NoUpload]
    /\ trace' = [id \in JobIds |-> <<>>]
    /\ UNCHANGED <<stored, form, aux>>

\* Two jobs, a provider that reports at length, one failure and its retry
NextLog ==
    \/ Mount
    \/ (Len(jobs) < 2 /\ Submit)
    \/ \E id \in JobIds : UploadStartDone(id, UploadUrl)
    \/ \E id \in JobIds : UploadEndDone(id, UploadUrl)
    \/ RunEffects
    \/ \E id \in JobIds : HasJob(jobs, id) /\ StatusMessage(id, ProviderSays(id))
    \/ \E id \in JobIds : ProviderResolve(id, GoodResponse)
    \/ \E id \in JobIds : ProviderReject(id)
    \/ \E id \in JobIds : FetchDone(id, TRUE)
    \/ \E id \in JobIds : SaveDone(id, TRUE)
    \/ \E i \in 1..2 : Retry(i)
    \/ Reload

SpecLog == InitA /\ [][NextLog]_vars

\* ------------------------------------------------ request building alone
\* runFal called for any model specification and payload of the sets below:
\* a model with an enum parameter "resolution", declared or not as required
\* and with or without default, an enum parameter "ratio" fed from the
\* aspect_ratio control, and an end-reference parameter; and the override
\* adapter model.
RatioParam(required) ==
    Param("ratio", "enum", required, TRUE, {"16:9", "9:16"}, Undefined,
          "aspect_ratio")

\* the end-reference parameter as catalog entries declare it: under one of
\* the provider's field names, with or without default
EndParams ==
    {Param(key, "string", FALSE, FALSE, {}, def, "end_frame_url") :
        key \in {"tail_image_url", "end_frame_url"},
        def \in {Undefined, "https://cdn/default-end.png"}}

\* a parameter that is no enum and is fed from the payload field of its own
\* name
DurationParam(required, default) ==
    Param("duration", "number", required, FALSE, {}, default, Undefined)

BuildSpecs ==
    {[id |-> "m", endFrame |-> flag, adapter |-> FALSE,
      videoPath |-> <<"video", "url">>,
      params |-> <<PromptParam, StartParam, DurationParam(durReq, durDef),
                   ResolutionParam(req, def), RatioParam(ratioReq),
                   endParam>>] :
        flag \in {"true", "unstable"}, req \in BOOLEAN,
        def \in {Undefined, "1080p"}, ratioReq \in BOOLEAN,
        endParam \in EndParams, durReq \in BOOLEAN,
        durDef \in {Undefined, "5"}}
    \cup
    {[id |-> "m-extra", endFrame |-> flag, adapter |-> TRUE,
      videoPath |-> <<"video", "url">>,
      params |-> <<PromptParam,
                   Param("start_frame_url", "string", TRUE, FALSE, {},
                         Undefined, "start_frame_url")>> \o declared] :
        flag \in {"true", "false"},
        declared \in {<<>>, <<ResolutionParam(TRUE, Undefined)>>}}

BuildPayloads ==
    {[modelId |-> "m", prompt |-> Prompt, start_frame_url |-> UploadUrl,
      end_frame_url |-> end, resolution |-> res, aspect_ratio |-> ratio,
      duration |-> duration] :
        end \in {Undefined, UploadUrl}, res \in {Undefined, "720p", "8k"},
        ratio \in {Undefined, "16:9"}, duration \in {Undefined, "10"}}

BuildCalls ==
    {[kind |-> "build", model |-> m, unified |-> u, result |-> Null] :
        m \in BuildSpecs, u \in BuildPayloads}

\* the output path of a catalog entry, as written
VideoPaths == {<<"video", "url">>, <<"", "video", "", "url">>}

ExtractCalls ==
    {[kind |-> "extract", model |-> [m EXCEPT !.videoPath = path],
      data |-> d, result |-> Null] :
        m \in {s \in BuildSpecs : s.adapter}
               \cup {ModelSpecOf(id) : id \in Models},
        path \in VideoPaths, d \in Responses}

InitBuild ==
    /\ jobs = <<>>
    /\ runningJobs = {}
    /\ jobsInitialized = FALSE
    /\ effectsPending = FALSE
    /\ stored = EmptySlot
    /\ pc = [id \in JobIds |-> "idle"]
    /\ upload = [id \in JobIds |-> NoUpload]
    /\ selectedModelId = DEFAULT_MODEL_ID
    /\ endFile = FALSE
    /\ resolution = "1080p"
    /\ call \in BuildCalls \cup ExtractCalls
    /\ videos = EmptyStore /\ files = <<>> /\ history = <<>>
    /\ trace = [id \in JobIds |-> <<>>]

\* runFal up to client.subscribe: the request is built
Build ==
    /\ call # Null
    /\ call.kind = "build"
    /\ call.result = Null
    /\ call' = [call EXCEPT !.result = buildFalInput(call.model, call.unified)]
    /\ UNCHANGED <<page, videos, files, history>>

\* runFal after client.subscribe has resolved: the URL is extracted
Extract ==
    /\ call # Null
    /\ call.kind = "extract"
    /\ call.result = Null
    /\ call' = [call EXCEPT
                   !.result = [url |-> extractVideoUrl(call.model, call.data)]]
    /\ UNCHANGED <<page, videos, files, history>>

NextBuild == Build \/ Extract

SpecBuild == InitBuild /\ [][NextBuild]_vars

\* ------------------------------------------------------------- startup
\* The page is opened on an index slot left by an earlier session or damaged
\* since: any of the contents below.  The user does nothing; the mount
\* effect and the passes it causes run.
NonObjectEntry ==
    [object |-> FALSE, id |-> NoId, modelId |-> Undefined,
     prompt |-> Undefined, createdAt |-> NoTime, events |-> <<>>,
     localKey |-> Undefined, localUrl |-> Undefined,
     storagePath |-> Undefined]

\* an object that carries nothing but the two fields given
BareEntry(key, url) ==
    [NonObjectEntry EXCEPT !.object = TRUE, !.localKey = key, !.localUrl = url]

FullEntry(key, url) == [ValidEntry EXCEPT !.localKey = key, !.localUrl = url]

StoredKeys == {Undefined, NotAString, "", "file-0"}
StoredUrls == {Undefined, NotAString, "", "/assets/file-0"}

StoredEntries ==
    {NonObjectEntry}
        \cup {BareEntry(k, u) : k \in StoredKeys, u \in StoredUrls}
        \cup {FullEntry(k, u) : k \in StoredKeys, u \in StoredUrls}

StartupSlots ==
    {EmptySlot,
     [kind |-> "unparseable", items |-> <<>>],
     [kind |-> "not-array", items |-> <<>>]}
        \cup {ArraySlot(s) :
                s \in UNION {[1..n -> StoredEntries] : n \in 0..MaxStored}}

InitStartup ==
    /\ jobs = <<>>
    /\ runningJobs = {}
    /\ jobsInitialized = FALSE
    /\ effectsPending = FALSE
    /\ stored \in StartupSlots
    /\ pc = [id \in JobIds |-> "idle"]
    /\ upload = [id \in JobIds |-> NoUpload]
    /\ selectedModelId = DEFAULT_MODEL_ID
    /\ endFile = FALSE
    /\ resolution = "1080p"
    /\ call = Null
    /\ videos = EmptyStore /\ files = <<>> /\ history = <<>>
    /\ trace = [id \in JobIds |-> <<>>]

NextStartup ==
    \/ Mount
    \/ RunEffects

SpecStartup == InitStartup /\ [][NextStartup]_vars

\* ------------------------------------------------------ claim vocabulary
Range(s) == {s[i] : i \in 1..Len(s)}

WithStatus(js, st) == {js[i].id : i \in {k \in 1..Len(js) : js[k].status = st}}

Present(id) == HasJob(jobs, id) /\ HasJob(jobs', id)

Old(id) == JobById(jobs, id)
New(id) == JobById(jobs', id)

EntersRunning(id) ==
    Present(id) /\ Old(id).status # "running" /\ New(id).status = "running"

IsPrefix(s, t) == Len(s) <= Len(t) /\ \A i \in 1..Len(s) : s[i] = t[i]

RetriedThenSucceeded ==
    <<"uploading", "queued", "running", "error", "queued", "running", "success">>

\* ------------------------------------------------------------- claims
\* C1: in every reachable state at most MAX_CONCURRENT_JOBS jobs have
\* status running.
C1_RunningBounded ==
    Cardinality(WithStatus(jobs, "running")) <= MAX_CONCURRENT_JOBS

\* K jobs run while a further job waits in queued
C1_Witness ==
    /\ Cardinality(WithStatus(jobs, "running")) = MAX_CONCURRENT_JOBS
    /\ WithStatus(jobs, "queued") # {}

AllowedMoves ==
    {<<"uploading", "queued">>, <<"uploading", "error">>,
     <<"queued", "running">>, <<"running", "success">>,
     <<"running", "error">>, <<"error", "queued">>}

\* C2: every change of a job's status is one of the six allowed moves, and a
\* move from error to queued is exactly the effect of the retry handler on a
\* job with a payload: no continuation advances and no slot changes in it.
C2_StatusMoves ==
    [][\A id \in JobIds :
        (Present(id) /\ Old(id).status # New(id).status) =>
            /\ <<Old(id).status, New(id).status>> \in AllowedMoves
            /\ Old(id).status = "error" =>
                /\ Old(id).payload # NoPayload
                /\ jobs' = notifyJobUpdate(jobs, id,
                               [status |-> "queued", error |-> Undefined])
                /\ pc' = pc
                /\ runningJobs' = runningJobs]_vars

\* a job that failed, was retried and succeeded has taken five of the moves
C2_Witness == \E id \in JobIds : trace[id] = RetriedThenSucceeded

CountRunning(s) == Cardinality({i \in 1..Len(s) : s[i] = "running"})

\* C3: a submitted job starts with attempt counter 0, the counter goes up by
\* one in exactly the steps in which the job enters running, and so it equals
\* the number of execution starts the job has had.
C3_AttemptsCountStarts ==
    /\ [](\A i \in 1..Len(jobs) :
            jobs[i].id > 0 => jobs[i].attempts = CountRunning(trace[jobs[i].id]))
    /\ [][\A id \in JobIds :
            /\ (HasJob(jobs', id) /\ ~HasJob(jobs, id) /\ id > 0) =>
                    New(id).attempts = 0
            /\ Present(id) =>
                    New(id).attempts =
                        Old(id).attempts + (IF EntersRunning(id) THEN 1 ELSE 0)]_vars

\* a job is in its second execution with counter 2
C3_Witness ==
    \E i \in 1..Len(jobs) :
        /\ jobs[i].status = "running"
        /\ jobs[i].attempts = 2
        /\ CountRunning(trace[jobs[i].id]) = 2

\* C4: the retry handler, applied to a failed job with a payload, sets
\* status queued and clears the error, leaving the attempt counter, payload,
\* id and event log as they were; applied to a job without payload it leaves
\* the job list unchanged; a job that failed once, was retried and then
\* succeeded has attempt counter 2.
C4_RetryEffect ==
    \A i \in 1..Len(jobs) :
        /\ CanRetry(jobs[i]) =>
            LET after == handleRetry(jobs, jobs[i])[i] IN
                /\ after.status = "queued"
                /\ after.error = Undefined
                /\ after.attempts = jobs[i].attempts
                /\ after.payload = jobs[i].payload
                /\ after.id = jobs[i].id
                /\ after.events = jobs[i].events
        /\ jobs[i].payload = NoPayload => handleRetry(jobs, jobs[i]) = jobs
        /\ trace[jobs[i].id] = RetriedThenSucceeded => jobs[i].attempts = 2

\* a retried job has succeeded with counter 2 while another job has no
\* payload yet
C4_Witness ==
    /\ \E i \in 1..Len(jobs) :
        /\ trace[jobs[i].id] = RetriedThenSucceeded
        /\ jobs[i].attempts = 2
    /\ \E i \in 1..Len(jobs) : jobs[i].payload = NoPayload

HasRun(id) == "running" \in Range(trace[id])
HasEnded(id) == Range(trace[id]) \cap {"success", "error"} # {}

\* C5: three jobs are never running together, and a job that enters running
\* when K other jobs have already been started does so only after one of
\* those has reached success or error, and beside fewer than K running jobs.
C5_ThirdWaits ==
    /\ [](Cardinality(WithStatus(jobs, "running")) < MAX_CONCURRENT_JOBS + 1)
    /\ [][\A id \in JobIds :
            EntersRunning(id) =>
                /\ Cardinality(WithStatus(jobs, "running") \ {id})
                        < MAX_CONCURRENT_JOBS
                /\ Cardinality({o \in JobIds \ {id} : HasRun(o)})
                        >= MAX_CONCURRENT_JOBS
                    => \E o \in JobIds \ {id} : HasRun(o) /\ HasEnded(o)]_vars

\* the third job runs beside one of the first two, the other having ended
C5_Witness ==
    /\ Cardinality({id \in JobIds : id > 0 /\ HasRun(id)}) = 3
    /\ Cardinality(WithStatus(jobs, "running")) = MAX_CONCURRENT_JOBS
    /\ \E id \in JobIds : id > 0 /\ HasEnded(id)

QueuedBesideFreeSlot ==
    /\ Cardinality(runningJobs) < MAX_CONCURRENT_JOBS
    /\ \E i \in 1..Len(jobs) :
        jobs[i].status = "queued" /\ jobs[i].id \notin runningJobs

\* C6: whenever a job is queued while fewer than K executions hold a slot, a
\* pass of the effects is scheduled, which starts a queued job; no state has
\* a queued job waiting beside a free slot with no pass to come.
C6_NoIdleSlot == QueuedBesideFreeSlot => effectsPending

\* an execution has ended and released its slot while a job is queued
C6_Witness ==
    /\ QueuedBesideFreeSlot
    /\ \E id \in JobIds : HasEnded(id) /\ id > 0 /\ id \notin runningJobs
    /\ Cardinality(runningJobs) = MAX_CONCURRENT_JOBS - 1

\* C7: a job that has reached success holds no execution slot.
C7_SuccessHoldsNoSlot ==
    \A i \in 1..Len(jobs) :
        jobs[i].status = "success" => jobs[i].id \notin runningJobs

\* C8: a job in uploading holds no slot; a job that takes a slot was queued;
\* and a pass of the effects ends without starting a job only when K slots
\* are held or no queued job is waiting, whatever is uploading.
C8_UploadingInvisible ==
    /\ [](\A i \in 1..Len(jobs) :
            jobs[i].status = "uploading" => jobs[i].id \notin runningJobs)
    /\ [][/\ \A id \in runningJobs' \ runningJobs :
                HasJob(jobs, id) /\ Old(id).status = "queued"
          /\ (effectsPending /\ ~effectsPending') =>
                ~QueuedBesideFreeSlot]_vars

\* K jobs run while another job is still uploading
C8_Witness ==
    /\ Cardinality(WithStatus(jobs, "running")) = MAX_CONCURRENT_JOBS
    /\ WithStatus(jobs, "uploading") # {}

NominalTrace == <<"uploading", "queued", "running", "success">>

\* C9: in scenario A the job's statuses form a prefix of uploading, queued,
\* running, success, the whole sequence is reached, and from some point on
\* the persisted index holds exactly one record, that of the job.
C9_ScenarioA ==
    /\ [](\A id \in JobIds : IsPrefix(trace[id], NominalTrace))
    /\ <>[](/\ Len(jobs) = 1
            /\ trace[jobs[1].id] = NominalTrace
            /\ Len(stored.items) = 1
            /\ stored.items[1].id = jobs[1].id)

\* the job has run through the four statuses and its record is in the index
C9_Witness ==
    /\ Len(jobs) = 1
    /\ trace[jobs[1].id] = NominalTrace
    /\ Len(stored.items) = 1
    /\ stored.items[1].id = jobs[1].id
    /\ stored.items[1].localKey = buildVideoFileName(jobs[1])

PersistEnds(id) == pc[id] \in {"fetch", "save"} /\ pc'[id] = "idle"

\* C10: when persistVideoAsset ends without the asset stored, the job has
\* saveError set, saving and saved false and status success as before, its
\* attempt counter and result URL are unchanged, and every other job is
\* unchanged.
C10_SaveFailure ==
    [][\A id \in JobIds :
        (PersistEnds(id) /\ ~New(id).saved) =>
            /\ New(id).saveError # Undefined
            /\ ~New(id).saving
            /\ Old(id).status = "success" /\ New(id).status = "success"
            /\ New(id).attempts = Old(id).attempts
            /\ New(id).videoUrl = Old(id).videoUrl
            /\ New(id).videoUrl = "remote-url"
            /\ Len(jobs') = Len(jobs)
            /\ \A i \in 1..Len(jobs) : jobs[i].id # id => jobs'[i] = jobs[i]]_vars

\* a save has failed for one job while other jobs are in the list
C10_Witness ==
    \E i \in 1..Len(jobs) :
        /\ jobs[i].saveError # Undefined
        /\ jobs[i].status = "success"
        /\ ~jobs[i].saved /\ ~jobs[i].saving
        /\ Len(jobs) > 1

\* a step that is a pass of the effects: only the pass ends with no pass
\* scheduled or hands out a slot
EffectsPass ==
    /\ jobsInitialized /\ effectsPending
    /\ (~effectsPending' \/ ~(runningJobs' \subseteq runningJobs))

DurablySaved(job) ==
    /\ job.status = "success" /\ job.saved /\ ~job.saving
    /\ job.saveError = Undefined
    /\ IsString(job.localKey) /\ job.localKey # ""
    /\ IsString(job.localUrl) /\ job.localUrl # ""

\* C11: after every pass that writes the index, each record in it is the
\* record of a job of the list that has status success and whose asset was
\* confirmed stored (durable key and access URL set, equal to the record's);
\* no job in another status and no successful job whose persistence is
\* pending or has failed has a record.
C11_IndexHoldsSavedOnly ==
    [][EffectsPass =>
        /\ stored'.kind \in {"absent", "array"}
        /\ \A k \in 1..Len(stored'.items) :
              \E i \in 1..Len(jobs) :
                /\ jobs[i].id = stored'.items[k].id
                /\ DurablySaved(jobs[i])
                /\ jobs[i].localKey = stored'.items[k].localKey
                /\ jobs[i].localUrl = stored'.items[k].localUrl
        /\ \A i \in 1..Len(jobs) :
              ~DurablySaved(jobs[i]) =>
                \A k \in 1..Len(stored'.items) :
                    stored'.items[k].id # jobs[i].id]_vars

\* the index written by the last pass holds the record of a job of this
\* session while another job has succeeded without its asset stored and a
\* third one has not succeeded
C11_Witness ==
    /\ ~effectsPending
    /\ \E k \in 1..Len(stored.items) : stored.items[k].id > 0
    /\ \E i \in 1..Len(jobs) : jobs[i].status = "success" /\ ~jobs[i].saved
    /\ \E i \in 1..Len(jobs) : jobs[i].status # "success"

\* an entry that carries a durable key and an access URL
Admissible(entry) ==
    /\ entry.object
    /\ entry.localKey \notin {Undefined, NotAString, ""}
    /\ entry.localUrl \notin {Undefined, NotAString, ""}

\* until the first write after startup the slot is as it was found
SlotAsFound == ~jobsInitialized \/ effectsPending \/ Len(jobs) = 0

\* C12: the history built at startup consists of one job per entry of the
\* index that carries both a durable key and an access URL, in the order of
\* the entries and with their key and URL; every other entry is dropped; an
\* absent slot, a text that does not parse and a value that is not an array
\* give the empty history; every job built has status success.
C12_RehydrationAdmits ==
    /\ \A i \in 1..Len(jobs) : jobs[i].status = "success"
    /\ (jobsInitialized /\ SlotAsFound) =>
        /\ stored.kind # "array" => jobs = <<>>
        /\ Len(jobs) = Len(Filter(stored.items, Admissible))
        /\ \A i \in 1..Len(jobs) :
            /\ jobs[i].localKey = Filter(stored.items, Admissible)[i].localKey
            /\ jobs[i].localUrl = Filter(stored.items, Admissible)[i].localUrl
            /\ jobs[i].videoUrl = jobs[i].localUrl
            /\ jobs[i].saved /\ ~jobs[i].saving

\* of two entries found the first was dropped and the second admitted
C12_Witness ==
    /\ jobsInitialized /\ effectsPending
    /\ Len(stored.items) = 2
    /\ ~Admissible(stored.items[1])
    /\ stored.items[1].localUrl = "/assets/file-0"
    /\ Len(jobs) = 1
    /\ jobs[1].status = "success"

\* C13: once the mount effect has run and no pass of the effects is left to
\* run, every record of the index carries a durable key and an access URL.
C13_NoInvalidAfterStartup ==
    (jobsInitialized /\ ~effectsPending) =>
        /\ stored.kind \in {"absent", "array"}
        /\ \A k \in 1..Len(stored.items) : Admissible(stored.items[k])

\* the index written from the current job list, read back at a restart
ReadBack == loadStoredJobs(persistStoredJobs(jobs))

\* C14: writing the index from the job list and rehydrating from it gives
\* the durably saved successful jobs of the list and no other job, in the
\* same order, each with status success and with the id, model id, prompt,
\* creation timestamp, durable key, access URL and storage path it had.
C14_RoundTrip ==
    /\ Len(ReadBack) = Len(Filter(jobs, DurablySaved))
    /\ \A i \in 1..Len(ReadBack) :
        LET job == Filter(jobs, DurablySaved)[i] IN
            /\ ReadBack[i].status = "success"
            /\ ReadBack[i].id = job.id
            /\ ReadBack[i].modelId = job.modelId
            /\ ReadBack[i].prompt = job.prompt
            /\ ReadBack[i].createdAt = job.createdAt
            /\ ReadBack[i].localKey = job.localKey
            /\ ReadBack[i].localUrl = job.localUrl
            /\ ReadBack[i].storagePath = job.storagePath

\* the index was written from a list in which a job of this session and a
\* rehydrated one are durably saved and two further jobs are not
C14_Witness ==
    /\ ~effectsPending
    /\ stored = persistStoredJobs(jobs)
    /\ Len(ReadBack) = 2
    /\ ReadBack[1].id > 0 /\ ReadBack[2].id = 0
    /\ Len(jobs) = 4

UploadEnds(id) == pc[id] \in {"upStart", "upEnd"} /\ pc'[id] = "idle"

\* C15: a job that leaves uploading for error has an error message, no
\* payload and attempt counter 0, and stays so for as long as it is in the
\* list: it is never enqueued, retried or started; and every payload a job
\* carries has a start-reference URL that is neither missing nor empty.
C15_UploadFailure ==
    /\ [](\A i \in 1..Len(jobs) :
            /\ (Len(trace[jobs[i].id]) >= 2 /\ trace[jobs[i].id][2] = "error") =>
                /\ trace[jobs[i].id] = <<"uploading", "error">>
                /\ jobs[i].status = "error"
                /\ jobs[i].error # Undefined
                /\ jobs[i].payload = NoPayload
                /\ jobs[i].attempts = 0
                /\ jobs[i].id \notin runningJobs
            /\ jobs[i].payload # NoPayload =>
                jobs[i].payload.start_frame_url \notin {Undefined, "", Rejected})
    /\ [][\A id \in JobIds :
            (UploadEnds(id) /\ New(id).status = "queued") =>
                /\ Old(id).status = "uploading"
                /\ New(id).payload.start_frame_url = UploadUrl]_vars

\* a job failed in its upload while two later jobs were enqueued and started
C15_Witness ==
    /\ \E i \in 1..Len(jobs) :
        /\ trace[jobs[i].id] = <<"uploading", "error">>
        /\ jobs[i].payload = NoPayload
    /\ Cardinality(WithStatus(jobs, "running")) = 2
    /\ ~effectsPending

\* C16: the payload attached at enqueue carries an end-reference URL exactly
\* when the job's model has the end-reference capability flag true and an
\* end file was supplied, and then it is the URL the end upload returned; an
\* end upload that fails leaves the job in error without payload.
C16_EndReferenceGated ==
    /\ [](\A i \in 1..Len(jobs) :
            (jobs[i].id > 0 /\ jobs[i].payload # NoPayload) =>
                /\ jobs[i].payload.end_frame_url # Undefined
                        <=> (jobs[i].modelId = "m-end" /\ endFile)
                /\ jobs[i].payload.end_frame_url \in {Undefined, UploadUrl})
    /\ [][\A id \in JobIds :
            (UploadEnds(id) /\ pc[id] = "upEnd") =>
                \/ /\ New(id).status = "queued"
                   /\ New(id).payload.end_frame_url = UploadUrl
                \/ /\ New(id).status = "error"
                   /\ New(id).error = "Unable to upload end frame."
                   /\ New(id).payload = NoPayload
                   /\ New(id).attempts = 0]_vars

\* an end file was supplied for a model whose flag is "unstable" and a job
\* runs on a payload without end reference
C16_Witness ==
    /\ selectedModelId = "m-unstable" /\ endFile
    /\ \E i \in 1..Len(jobs) :
        /\ jobs[i].status = "running"
        /\ jobs[i].payload.end_frame_url = Undefined
        /\ jobs[i].payload.start_frame_url = UploadUrl

\* the end upload of a job failed on a model with the capability enabled
C16_WitnessEnabled ==
    /\ selectedModelId = "m-end" /\ endFile
    /\ \E i \in 1..Len(jobs) :
        jobs[i].status = "error" /\ jobs[i].error = "Unable to upload end frame."
    /\ \E i \in 1..Len(jobs) :
        jobs[i].payload # NoPayload /\ jobs[i].payload.end_frame_url = UploadUrl

\* buildFalInput has returned or thrown for a model without override adapter
GenericBuilt ==
    /\ call # Null /\ call.kind = "build" /\ call.result # Null
    /\ ~call.model.adapter

Defn(i) == call.model.params[i]
Supplied(i) ==
    Lookup(call.unified,
           IF Defn(i).uiKey = Undefined THEN Defn(i).key ELSE Defn(i).uiKey)
EnumParams ==
    {i \in 1..Len(call.model.params) : Defn(i).type = "enum"}
Allowed(i) == Supplied(i) \in Defn(i).values
LacksRequired(i) ==
    ~Allowed(i) /\ Defn(i).default = Undefined /\ Defn(i).required

\* the payload field a parameter is fed from, and its value
FieldOf(i) == IF Defn(i).uiKey = Undefined THEN Defn(i).key ELSE Defn(i).uiKey
PayloadValue(i) ==
    IF FieldOf(i) \in DOMAIN call.unified THEN call.unified[FieldOf(i)]
    ELSE Undefined
PlainParams ==
    {i \in 1..Len(call.model.params) :
        ~(Defn(i).type = "enum" /\ Defn(i).hasValues)}

\* a required parameter is left without value
Lacks(i) ==
    IF i \in EnumParams THEN LacksRequired(i)
    ELSE /\ Defn(i).required
         /\ PayloadValue(i) = Undefined
         /\ Defn(i).default = Undefined

\* C20: after buildFalInput has run on a model without override adapter,
\* for every enum parameter: a supplied value of the allowed set is in the
\* request as it is; otherwise the default is, if there is one; otherwise
\* the field is left out if the parameter is not required, and if it is
\* required no request is built and the error names the first such
\* parameter; a request is built exactly when no required parameter is
\* left without value.
C20_EnumCoercion ==
    GenericBuilt =>
        /\ \A i \in EnumParams :
            /\ (call.result.ok /\ Allowed(i)) =>
                /\ Defn(i).key \in DOMAIN call.result.input
                /\ call.result.input[Defn(i).key] = Supplied(i)
            /\ (call.result.ok /\ ~Allowed(i) /\ Defn(i).default # Undefined) =>
                /\ Defn(i).key \in DOMAIN call.result.input
                /\ call.result.input[Defn(i).key] = Defn(i).default
            /\ (call.result.ok /\ ~Allowed(i) /\ Defn(i).default = Undefined) =>
                /\ ~Defn(i).required
                /\ Defn(i).key \notin DOMAIN call.result.input
            /\ LacksRequired(i) =>
                /\ ~call.result.ok
                /\ (\A k \in 1..(i - 1) : ~Lacks(k)) =>
                    call.result.error =
                        "Missing required enum value for " \o Defn(i).key
        /\ call.result.ok <=> \A i \in 1..Len(call.model.params) : ~Lacks(i)

\* resolution "8k" with allowed 720p and 1080p and default 1080p has given
\* 1080p
C20_Witness ==
    /\ GenericBuilt
    /\ call.unified.resolution = "8k"
    /\ call.result.ok
    /\ "resolution" \in DOMAIN call.result.input
    /\ call.result.input["resolution"] = "1080p"
    /\ "ratio" \notin DOMAIN call.result.input

\* a required enum parameter without default was given a value outside its
\* allowed set and the call has failed naming it
C20_WitnessFails ==
    /\ GenericBuilt
    /\ call.unified.resolution = "8k"
    /\ call.result.error = "Missing required enum value for resolution"

\* C17: a job whose provider request cannot be built is never in status
\* queued or running and keeps attempt counter 0.
C17_ValidationBlocksEnqueue ==
    \A i \in 1..Len(jobs) :
        BuildFails(jobs[i]) =>
            /\ jobs[i].status \notin {"queued", "running"}
            /\ jobs[i].attempts = 0

\* an identifier no job of the list has
AbsentId == MaxJobs + 1

Changed == {i \in 1..Len(jobs) : jobs'[i] # jobs[i]}

\* C18: a step that updates a job changes the record of that job only and
\* keeps the list in its order (a submission puts the new job in front of
\* the unchanged list); a slot is released only for the job the step
\* updates; when a job fails every other record is unchanged and only its
\* own slot is released; and an update or an enqueue for an identifier
\* that is not in the list leaves the list as it is.
C18_UpdatesAreLocal ==
    /\ [](/\ ~HasJob(jobs, AbsentId)
          /\ notifyJobUpdate(jobs, AbsentId, FailurePatch("failed")) = jobs
          /\ enqueueJob(jobs, AbsentId,
                        UnifiedPayload(NewJob(AbsentId, selectedModelId),
                                       UploadUrl, Undefined)) = jobs)
    /\ [][/\ Len(jobs') >= Len(jobs)
          /\ Len(jobs') > Len(jobs) =>
                SubSeq(jobs', Len(jobs') - Len(jobs) + 1, Len(jobs')) = jobs
          /\ Len(jobs') = Len(jobs) =>
                /\ Cardinality(Changed) <= 1
                /\ \A i \in 1..Len(jobs) : jobs'[i].id = jobs[i].id
                /\ \A id \in runningJobs \ runningJobs' :
                        \E i \in Changed : jobs[i].id = id
                /\ \A i \in Changed :
                        (jobs'[i].status = "error" /\ jobs[i].status # "error") =>
                            runningJobs' = runningJobs \ {jobs[i].id}]_vars

\* a job has failed in execution and released its slot while another job
\* is running in its slot and a third one is in the list
C18_Witness ==
    /\ Len(jobs) = 3
    /\ \E i \in 1..Len(jobs), k \in 1..Len(jobs) :
        /\ jobs[i].status = "error" /\ jobs[i].attempts = 1
        /\ jobs[i].id \notin runningJobs
        /\ jobs[k].status = "running" /\ jobs[k].id \in runningJobs

EndParamIndexes ==
    {i \in 1..Len(call.model.params) : Defn(i).uiKey = "end_frame_url"}

Gated ==
    \/ ~isSupportEnabled(call.model.endFrame)
    \/ Falsy(call.unified.end_frame_url)

\* ---------------------------------------------------- image requests
\* The size of an image job: absent, a preset name, or width and height.
NoSize == [kind |-> "absent"]
Preset(name) == [kind |-> "preset", name |-> name]
Dims(width, height) == [kind |-> "dims", width |-> width, height |-> height]

\* faulty variant: the dimensions are not reduced
gcdNone(a, b) == 1

\* gcd of resolveAspectRatio
RECURSIVE gcd(_, _)
gcd(a, b) == IF b = 0 THEN a ELSE gcd(b, a % b)

\* resolveAspectRatio(size): "w:h", or Undefined.  Math.round leaves the
\* integers of the model as they are, and width / factor is exact.
resolveAspectRatio(size) ==
    IF size.kind = "absent" THEN Undefined
    ELSE IF size.kind = "preset"
    THEN CASE size.name \in {"square_hd", "square"} -> "1:1"
           [] size.name = "portrait_4_3" -> "3:4"
           [] size.name = "portrait_16_9" -> "9:16"
           [] size.name = "landscape_4_3" -> "4:3"
           [] size.name = "landscape_16_9" -> "16:9"
           [] OTHER -> Undefined
    ELSE IF size.width = 0 \/ size.height = 0 THEN Undefined
    ELSE LET factor == gcd(size.width, size.height)
             w == size.width \div factor
             h == size.height \div factor IN
         ToString(w) \o ":" \o ToString(h)

\* mapInput of flux-kontext-pro, for a job without seed and steps
FluxKontextMapInput(job) ==
    LET aspectRatio == resolveAspectRatio(job.size)
        base == [prompt |-> job.prompt, num_images |-> "1",
                 output_format |-> "png", guidance_scale |-> "4.5"]
        images == IF Len(job.imageUrls) > 0
                  THEN [image_urls |-> SubSeq(job.imageUrls, 1,
                            IF Len(job.imageUrls) < 4 THEN Len(job.imageUrls)
                            ELSE 4)]
                  ELSE <<>>
        ratio == IF ~Falsy(aspectRatio)
                 THEN [aspect_ratio |-> aspectRatio] ELSE <<>> IN
        base @@ images @@ ratio

MaxDim == 12
PresetNames ==
    {"square_hd", "square", "portrait_4_3", "portrait_16_9", "landscape_4_3",
     "landscape_16_9", "widescreen"}
Sizes ==
    {NoSize} \cup {Preset(name) : name \in PresetNames}
             \cup {Dims(w, h) : w \in 0..MaxDim, h \in 0..MaxDim}

ImageCalls ==
    {[kind |-> "image",
      job |-> [prompt |-> Prompt, imageUrls |-> urls, size |-> size],
      result |-> Null] :
        urls \in {<<>>, <<UploadUrl>>}, size \in Sizes}

InitImage ==
    /\ PageClosed
    /\ call \in ImageCalls
    /\ videos = EmptyStore /\ files = <<>> /\ history = <<>>

\* the request of an image job is mapped
MapImageInput ==
    /\ call # Null
    /\ call.kind = "image"
    /\ call.result = Null
    /\ call' = [call EXCEPT !.result =
                   [ratio |-> resolveAspectRatio(call.job.size),
                    input |-> FluxKontextMapInput(call.job)]]
    /\ UNCHANGED <<page, videos, files, history>>

NextImage == MapImageInput

SpecImage == InitImage /\ [][NextImage]_vars

\* ------------------------------------------------------- file names
\* Strings are held as sequences of characters here.
Lowercase ==
    {"a", "b", "c", "d", "e", "f", "g", "h", "i", "j", "k", "l", "m", "n",
     "o", "p", "q", "r", "s", "t", "u", "v", "w", "x", "y", "z"}
Digits == {"0", "1", "2", "3", "4", "5", "6", "7", "8", "9"}
Uppercase == [R |-> "r", M |-> "m", J |-> "j"]

\* String.prototype.toLowerCase, by character
toLowerCase(value) ==
    [i \in 1..Len(value) |->
        IF value[i] \in DOMAIN Uppercase THEN Uppercase[value[i]]
        ELSE value[i]]

\* replace(/[^a-z0-9]+/g, "-"): each run of other characters becomes one "-"
RECURSIVE ReplaceRuns(_, _, _)
ReplaceRuns(value, i, out) ==
    IF i > Len(value) THEN out
    ELSE IF value[i] \in Lowercase \cup Digits
    THEN ReplaceRuns(value, i + 1, Append(out, value[i]))
    ELSE IF i > 1 /\ value[i - 1] \notin Lowercase \cup Digits
    THEN ReplaceRuns(value, i + 1, out)
    ELSE ReplaceRuns(value, i + 1, Append(out, "-"))

\* replace(/^-+|-+$/g, "")
RECURSIVE TrimDashes(_)
TrimDashes(value) ==
    IF value = <<>> THEN value
    ELSE IF Head(value) = "-" THEN TrimDashes(Tail(value))
    ELSE IF value[Len(value)] = "-"
    THEN TrimDashes(SubSeq(value, 1, Len(value) - 1))
    ELSE value

\* slice(0, n) and slice(-n)
SliceTo(value, n) == SubSeq(value, 1, IF Len(value) < n THEN Len(value) ELSE n)
SliceLast(value, n) ==
    SubSeq(value, IF Len(value) < n THEN 1 ELSE Len(value) - n + 1, Len(value))

sanitizeFileSegment(value) ==
    SliceTo(TrimDashes(ReplaceRuns(toLowerCase(value), 1, <<>>)), 40)

\* a || b on strings
OrElse(a, b) == IF a = <<>> THEN b ELSE a

\* formatCompactTimestamp of lib/time: one name per millisecond
formatCompactTimestamp(createdAt) == <<ToString(createdAt)>>

\* buildVideoFileName(job), character by character
videoFileName(job) ==
    LET baseSegment ==
            OrElse(sanitizeFileSegment(
                       OrElse(job.storagePath,
                              <<"d", "o", "w", "n", "l", "o", "a", "d", "s">>)),
                   <<"d", "o", "w", "n", "l", "o", "a", "d", "s">>)
        modelSegment ==
            OrElse(sanitizeFileSegment(job.modelId), <<"m", "o", "d", "e", "l">>)
        stamp == formatCompactTimestamp(job.createdAt)
        idSegment ==
            OrElse(SliceLast(sanitizeFileSegment(job.id), 6),
                   SliceLast(job.id, 6)) IN
        baseSegment \o <<"-">> \o modelSegment \o <<"-">> \o stamp
            \o <<"-">> \o idSegment \o <<".", "m", "p", "4">>

\* the download folders, model ids, creation times and job ids of the jobs
\* that are named
PathHints ==
    {<<>>, <<"R", "x">>, <<"r", "x">>, <<"r", " ", "x">>, <<"r">>}
ModelIdChars == {<<"m", "1">>, <<"x", "/", "m", "1">>}
CreationTimes == {1, 2}
JobIdChars ==
    {<<"j", "o", "b", "_", "1", "_", "a", "b", "c", "d", "e", "f">>,
     <<"j", "o", "b", "_", "2", "_", "a", "b", "c", "d", "e", "f">>,
     <<"j", "o", "b", "_", "1", "_", "a", "b", "c", "d", "e", "g">>}

NamedJobs ==
    {[storagePath |-> p, modelId |-> m, createdAt |-> t, id |-> i] :
        p \in PathHints, m \in ModelIdChars, t \in CreationTimes,
        i \in JobIdChars}

FileCalls ==
    {[kind |-> "file", first |-> a, second |-> b, result |-> Null] :
        a \in NamedJobs, b \in NamedJobs}

InitFile ==
    /\ PageClosed
    /\ call \in FileCalls
    /\ videos = EmptyStore /\ files = <<>> /\ history = <<>>

\* two successful jobs are given their file names
NameFiles ==
    /\ call # Null
    /\ call.kind = "file"
    /\ call.result = Null
    /\ call' = [call EXCEPT !.result =
                   [first |-> videoFileName(call.first),
                    second |-> videoFileName(call.second)]]
    /\ UNCHANGED <<page, videos, files, history>>

NextFile == NameFiles

SpecFile == InitFile /\ [][NextFile]_vars

\* ------------------------------------------------ video store calls
MaxOps == 4
VideoKeys == {"k1", "k2"}
Blobs == {"blob-1", "blob-2"}

InitStore ==
    /\ PageClosed
    /\ call = Null
    /\ videos = EmptyStore /\ files = <<>> /\ history = <<>>

Issued == Len(history) + Len(videos.transactions)

\* a call creates its transaction once the connection is open
Issue(transaction) ==
    /\ Issued < MaxOps
    /\ videos' = [videos EXCEPT !.transactions = Append(@, transaction)]
    /\ UNCHANGED <<page, call, files, history>>

saveVideo(key, blob) == Issue([op |-> "save", key |-> key, blob |-> blob])

getVideo(key) == Issue([op |-> "get", key |-> key, blob |-> Undefined])

deleteVideo(key) == Issue([op |-> "delete", key |-> key, blob |-> Undefined])

\* The oldest transaction runs and completes; the promise of its call is
\* resolved, for getVideo with the blob read.
Complete ==
    /\ videos.transactions # <<>>
    /\ LET t == Head(videos.transactions)
           records ==
               CASE t.op = "save" -> put(videos.records, t.key, t.blob)
                 [] t.op = "delete" -> delete(videos.records, t.key)
                 [] OTHER -> videos.records
           result ==
               IF t.op = "get" THEN get(videos.records, t.key) ELSE Undefined
       IN /\ videos' = [records |-> records,
                        transactions |-> Tail(videos.transactions)]
          /\ history' = Append(history,
                               [op |-> t.op, key |-> t.key, blob |-> t.blob,
                                result |-> result])
    /\ UNCHANGED <<page, call, files>>

\* The oldest transaction is a put that the browser refuses (quota): the
\* transaction is aborted, the call does not complete.
Abort ==
    /\ videos.transactions # <<>>
    /\ Head(videos.transactions).op = "save"
    /\ videos' = [videos EXCEPT !.transactions = Tail(@)]
    /\ history' = Append(history,
                         [op |-> "aborted", key |-> Head(videos.transactions).key,
                          blob |-> Undefined, result |-> Undefined])
    /\ UNCHANGED <<page, call, files>>

NextStore ==
    \/ \E key \in VideoKeys, blob \in Blobs : saveVideo(key, blob)
    \/ \E key \in VideoKeys : getVideo(key)
    \/ \E key \in VideoKeys : deleteVideo(key)
    \/ Complete
    \/ Abort

SpecStore == InitStore /\ [][NextStore]_vars

\* ------------------------------------------------ asset endpoints
\* The middleware of the development server.  Names and paths are sequences
\* of characters; the out directory is held as its files, by path below
\* the directory.

\* encodeURIComponent, as the page applies it to a file name
RECURSIVE encodeURIComponent(_)
encodeURIComponent(value) ==
    IF value = <<>> THEN <<>>
    ELSE (CASE Head(value) = "/" -> <<"%", "2", "F">>
            [] Head(value) = "\\" -> <<"%", "5", "C">>
            [] Head(value) = "%" -> <<"%", "2", "5">>
            [] OTHER -> <<Head(value)>>)
         \o encodeURIComponent(Tail(value))

\* decodeURIComponent: the text, or a URIError for a malformed escape
RECURSIVE decodeURIComponent(_)
decodeURIComponent(value) ==
    IF value = <<>> THEN [ok |-> TRUE, value |-> <<>>]
    ELSE IF Head(value) # "%"
    THEN LET rest == decodeURIComponent(Tail(value)) IN
             [rest EXCEPT !.value = <<Head(value)>> \o @]
    ELSE IF Len(value) < 3 THEN [ok |-> FALSE, value |-> <<>>]
    ELSE LET hex == SubSeq(value, 2, 3)
             rest == decodeURIComponent(SubSeq(value, 4, Len(value))) IN
         IF hex \notin {<<"2", "F">>, <<"5", "C">>, <<"2", "5">>}
         THEN [ok |-> FALSE, value |-> <<>>]
         ELSE [rest EXCEPT !.value =
                  <<CASE hex = <<"2", "F">> -> "/"
                      [] hex = <<"5", "C">> -> "\\"
                      [] OTHER -> "%">> \o @]

\* value.includes(part)
\* faulty variant: nothing is ever found
includesNothing(value, part) == FALSE

includes(value, part) ==
    \E i \in 1..Len(value) :
        i + Len(part) - 1 <= Len(value)
        /\ SubSeq(value, i, i + Len(part) - 1) = part

\* path.isAbsolute on a POSIX host
isAbsolute(relative) == relative # <<>> /\ Head(relative) = "/"

\* the pieces of a path between its separators
RECURSIVE SplitPath(_, _, _)
SplitPath(value, segment, segments) ==
    IF value = <<>> THEN Append(segments, segment)
    ELSE IF Head(value) = "/"
    THEN SplitPath(Tail(value), <<>>, Append(segments, segment))
    ELSE SplitPath(Tail(value), Append(segment, Head(value)), segments)

\* path.normalize on the pieces: empty pieces and "." are dropped, ".."
\* takes the piece before it away and stays when there is none
RECURSIVE Normalize(_, _)
Normalize(segments, done) ==
    IF segments = <<>> THEN done
    ELSE IF Head(segments) \in {<<>>, <<".">>}
    THEN Normalize(Tail(segments), done)
    ELSE IF /\ Head(segments) = <<".", ".">>
            /\ done # <<>> /\ done[Len(done)] # <<".", ".">>
    THEN Normalize(Tail(segments), SubSeq(done, 1, Len(done) - 1))
    ELSE Normalize(Tail(segments), Append(done, Head(segments)))

\* path.join(OUT_DIR, relative), as the path relative to the out directory;
\* a path that begins with ".." is outside it
join(relative) == Normalize(SplitPath(relative, <<>>, <<>>), <<>>)

\* fs.existsSync(targetPath) && fs.statSync(targetPath).isFile()
isFile(fs, relative) ==
    /\ relative[Len(relative)] # "/"
    /\ join(relative) \in DOMAIN fs

\* Buffer.from(data, "base64")
FromBase64(data) ==
    CASE data = "QQ==" -> <<65>>
      [] data = "Qg==" -> <<66>>
      [] OTHER -> <<>>

\* faulty variant: an existing file is kept
writeFileSyncKeeps(fs, target, buffer) ==
    IF target \in DOMAIN fs THEN fs ELSE (target :> buffer) @@ fs

\* fs.writeFileSync(targetPath, buffer)
writeFileSync(fs, target, buffer) ==
    (target :> buffer) @@ [p \in DOMAIN fs \ {target} |-> fs[p]]

Response(status, body) == [status |-> status, body |-> body]

\* GET /assets/<relativeEncoded>: the response
GetAsset(fs, relativeEncoded) ==
    LET decoded == decodeURIComponent(relativeEncoded)
        relative == decoded.value IN
        IF ~decoded.ok THEN Response(500, <<>>)
        ELSE IF \/ relative = <<>>
                \/ includes(relative, <<".", ".">>)
                \/ includes(relative, <<"\\">>)
                \/ isAbsolute(relative)
        THEN Response(400, <<>>)
        ELSE IF ~isFile(fs, relative) THEN Response(404, <<>>)
        ELSE Response(200, fs[join(relative)])

\* POST /api/assets with the JSON body { name, data }: the response and
\* the files afterwards
PostAsset(fs, name, data) ==
    IF name = <<>> \/ data = ""
    THEN [response |-> Response(400, <<>>), fs |-> fs]
    ELSE IF \/ includes(name, <<".", ".">>)
            \/ includes(name, <<"/">>)
            \/ includes(name, <<"\\">>)
    THEN [response |-> Response(400, <<>>), fs |-> fs]
    ELSE IF join(name) = <<>>
    THEN \* the target is the out directory itself: writeFileSync throws
         [response |-> Response(500, <<>>), fs |-> fs]
    ELSE [response |-> Response(200, <<>>),
          fs |-> writeFileSync(fs, join(name), FromBase64(data))]

MaxRequests == 3
AssetNames ==
    {<<"a">>, <<"%", "a">>, <<".", ".">>, <<"a", "/", "a">>, <<"\\">>, <<>>,
     <<"/", "a">>, <<".">>, <<".", "/", "a">>, <<".", ".", "/", "a">>}
AssetData == {"", "QQ==", "Qg=="}

InitAssets ==
    /\ PageClosed
    /\ call = Null
    /\ videos = EmptyStore /\ files = <<>> /\ history = <<>>

\* the page, or anyone, requests GET /assets/encodeURIComponent(name)
Get(name) ==
    /\ Len(history) < MaxRequests
    /\ history' = Append(history,
           [method |-> "GET", name |-> name, data |-> "",
            response |-> GetAsset(files, encodeURIComponent(name))])
    /\ UNCHANGED <<page, call, videos, files>>

\* POST /api/assets { name, data }
Post(name, data) ==
    /\ Len(history) < MaxRequests
    /\ files' = PostAsset(files, name, data).fs
    /\ history' = Append(history,
           [method |-> "POST", name |-> name, data |-> data,
            response |-> PostAsset(files, name, data).response])
    /\ UNCHANGED <<page, call, videos>>

NextAssets ==
    \/ \E name \in AssetNames : Get(name)
    \/ \E name \in AssetNames, data \in AssetData : Post(name, data)

SpecAssets == InitAssets /\ [][NextAssets]_vars

\* ------------------------------------------------------ the image tab
\* The state of the image tab is held in call: whether the tab is mounted
\* (activeTab = "image") and which instance of the component it is, the
\* component state busy, prompt and imageUrls (their number), the maxRefs of
\* the selected model, and the renders, which the persist effect writes to
\* localStorage after every change and the mount effect loads again.
\* flights are the calls of generate that have not returned: the id of the
\* generation, the component instance it runs in, and whether it waits for
\* runImageJob ("run") or for storeAssetsOnDisk ("store"); ended lists the
\* generations that have returned.
MaxGenerations == 3
MaxMounts == 2
MaxClicks == 4

TabClosed ==
    [kind |-> "tab", mounted |-> FALSE, instance |-> 0, busy |-> FALSE,
     prompt |-> "", refs |-> 0, maxRefs |-> 0, renders |-> <<>>,
     flights |-> {}, ended |-> <<>>, clicks |-> 0]

InitTab ==
    /\ PageClosed
    /\ call = TabClosed
    /\ videos = EmptyStore /\ files = <<>> /\ history = <<>>

\* faulty variant: the handler does not look at busy
generateAlways(tab) ==
    IF tab.prompt = "" THEN tab
    ELSE IF tab.maxRefs > 0 /\ tab.refs = 0 THEN tab
    ELSE [tab EXCEPT !.busy = TRUE,
                     !.flights = @ \cup {[id |-> Len(tab.ended)
                                              + Cardinality(tab.flights) + 1,
                                         owner |-> tab.instance,
                                         phase |-> "run"]}]

\* generate(), up to its await on runImageJob: the early returns, then
\* setBusy(true) and the request
generate(tab) ==
    IF tab.busy THEN tab
    ELSE IF tab.prompt = "" THEN tab
    ELSE IF tab.maxRefs > 0 /\ tab.refs = 0 THEN tab
    ELSE [tab EXCEPT !.busy = TRUE,
                     !.flights = @ \cup {[id |-> Len(tab.ended)
                                              + Cardinality(tab.flights) + 1,
                                         owner |-> tab.instance,
                                         phase |-> "run"]}]

\* the component instance a generation runs in is the one on the page: its
\* setBusy and setRenders have an effect
Live(tab, flight) == tab.mounted /\ flight.owner = tab.instance

\* the user opens the image tab: a new instance of the component
OpenTab ==
    /\ ~call.mounted
    /\ call.instance < MaxMounts
    /\ \E maxRefs \in {0, 4} :
        call' = [call EXCEPT !.mounted = TRUE, !.instance = @ + 1,
                             !.busy = FALSE, !.prompt = "", !.refs = 0,
                             !.maxRefs = maxRefs]
    /\ UNCHANGED <<page, videos, files, history>>

\* the user goes back to the video tab: the component is unmounted and its
\* state is gone
CloseTab ==
    /\ call.mounted
    /\ call' = [call EXCEPT !.mounted = FALSE, !.busy = FALSE,
                             !.prompt = "", !.refs = 0, !.maxRefs = 0]
    /\ UNCHANGED <<page, videos, files, history>>

\* the user types a prompt or clears it, adds or removes the reference
Edit(prompt, refs) ==
    /\ call.mounted
    /\ refs > 0 => call.maxRefs > 0
    /\ call' = [call EXCEPT !.prompt = prompt, !.refs = refs]
    /\ UNCHANGED <<page, videos, files, history>>

\* the Generate button's handler is called
ClickGenerate ==
    /\ call.mounted
    /\ call.clicks < MaxClicks
    /\ Len(call.ended) + Cardinality(call.flights) < MaxGenerations
    /\ call' = [generate(call) EXCEPT !.clicks = @ + 1]
    /\ UNCHANGED <<page, videos, files, history>>

\* runImageJob returns or throws (spec.getUrls included)
RunDone(flight, ok) ==
    /\ flight \in call.flights /\ flight.phase = "run"
    /\ call' =
         IF ok
         THEN [call EXCEPT !.flights = (@ \ {flight})
                               \cup {[flight EXCEPT !.phase = "store"]}]
         ELSE \* catch: alert; finally: setBusy(false)
              [call EXCEPT !.flights = @ \ {flight},
                           !.busy = IF Live(call, flight) THEN FALSE ELSE @,
                           !.ended = Append(@, [id |-> flight.id,
                                                ok |-> FALSE])]
    /\ UNCHANGED <<page, videos, files, history>>

\* storeAssetsOnDisk returns (it catches its own failures): the render is
\* put in front, then finally: setBusy(false)
StoreDone(flight) ==
    /\ flight \in call.flights /\ flight.phase = "store"
    /\ call' = [call EXCEPT
                   !.flights = @ \ {flight},
                   !.renders = IF Live(call, flight)
                               THEN <<flight.id>> \o @ ELSE @,
                   !.busy = IF Live(call, flight) THEN FALSE ELSE @,
                   !.ended = Append(@, [id |-> flight.id, ok |-> TRUE])]
    /\ UNCHANGED <<page, videos, files, history>>

NextTab ==
    \/ OpenTab
    \/ CloseTab
    \/ \E prompt \in {"", Prompt}, refs \in 0..1 : Edit(prompt, refs)
    \/ ClickGenerate
    \/ \E flight \in call.flights, ok \in BOOLEAN : RunDone(flight, ok)
    \/ \E flight \in call.flights : StoreDone(flight)

SpecTab == InitTab /\ [][NextTab]_vars

\* C21: for a model without override adapter whose end-reference capability
\* is not enabled, or a payload without end-reference URL, the request that
\* buildFalInput returns has no field for a parameter fed from the end
\* reference, under whatever key the parameter is declared.
C21_NoEndFieldWhenGated ==
    (GenericBuilt /\ call.result.ok /\ Gated) =>
        \A i \in EndParamIndexes : Defn(i).key \notin DOMAIN call.result.input

\* buildFalInput has returned for a model with an override adapter
AdapterBuilt ==
    /\ call # Null /\ call.kind = "build" /\ call.result # Null
    /\ call.model.adapter

Extracted == call # Null /\ call.kind = "extract" /\ call.result # Null

\* C22: for a model with an override adapter, buildFalInput returns exactly
\* what the adapter's request mapper returns for the payload: nothing is
\* thrown, no declared parameter is resolved, validated or defaulted, and no
\* end-reference field is removed; and extractVideoUrl returns exactly what
\* the adapter's extractor returns for the response, whatever the output
\* path points at.
C22_OverrideDelegation ==
    /\ AdapterBuilt =>
          /\ call.result.ok
          /\ call.result.input =
                [prompt |-> call.unified.prompt,
                 image_url |-> call.unified.start_frame_url,
                 tail_image_url |-> call.unified.end_frame_url]
    /\ (Extracted /\ call.model.adapter) =>
          call.result.url = ExtraGetVideoUrl(call.data)

\* the override mapper's request keeps an end reference the generic mapping
\* would have removed, for a payload the generic mapping would have refused
C22_Witness ==
    /\ AdapterBuilt
    /\ call.model.endFrame = "false"
    /\ Len(call.model.params) = 3
    /\ call.unified.resolution = "8k"
    /\ call.result.ok
    /\ call.result.input["tail_image_url"] = UploadUrl

\* the override extractor's URL is returned, not the one at the output path
C22_WitnessExtract ==
    /\ Extracted /\ call.model.adapter
    /\ call.data = ExtraResponse
    /\ call.result.url = "https://cdn/extra.mp4"

\* the value at video.url of a response is a string
StringAtVideoUrl(data) ==
    /\ data.t = "object"
    /\ "video" \in DOMAIN data.fields
    /\ data.fields["video"].t = "object"
    /\ "url" \in DOMAIN data.fields["video"].fields
    /\ data.fields["video"].fields["url"].t = "string"

\* C23 (the extraction alone): without override extractor, extractVideoUrl
\* returns a URL exactly when the walk along the output path reaches a
\* string, and then that string; otherwise it returns nothing.
C23_ExtractionReachesString ==
    (Extracted /\ ~call.model.adapter) =>
        IF StringAtVideoUrl(call.data)
        THEN call.result.url = call.data.fields["video"].fields["url"].s
        ELSE call.result.url = Undefined

\* C23: when the provider's response has no string at the model's output
\* path (a segment missing, a non-object on the way, a final value that is
\* not a string), the run fails: the running job becomes error with an
\* error message, its slot is released, and no URL is stored as its result.
\* When the path reaches a URL, that URL is the result.
C23_NoUrlFailsRun ==
    [][\A id \in JobIds, data \in PageResponses :
          ProviderResolve(id, data) =>
              LET before == JobById(jobs, id)
                  after == JobById(jobs', id) IN
                  IF StringAtVideoUrl(data)
                     /\ data.fields["video"].fields["url"].s # ""
                  THEN /\ after.status = "success"
                       /\ after.videoUrl =
                              data.fields["video"].fields["url"].s
                  ELSE /\ before.status = "running"
                       /\ after.status = "error"
                       /\ ~Falsy(after.error)
                       /\ Falsy(after.videoUrl)
                       /\ id \notin runningJobs']_vars

C23_Witness ==
    \E i \in 1..Len(jobs) :
        /\ jobs[i].status = "error"
        /\ jobs[i].error = "Video URL not found in response"
        /\ jobs[i].attempts = 1
        /\ Falsy(jobs[i].videoUrl)
        /\ jobs[i].id \notin runningJobs

ImageMapped == call # Null /\ call.kind = "image" /\ call.result # Null

Coprime(w, h) == \A d \in 2..MaxDim : ~(w % d = 0 /\ h % d = 0)

\* the ratio each preset stands for
PresetRatio ==
    [square_hd |-> "1:1", square |-> "1:1", portrait_4_3 |-> "3:4",
     portrait_16_9 |-> "9:16", landscape_4_3 |-> "4:3",
     landscape_16_9 |-> "16:9"]

\* C24: for positive integer width and height resolveAspectRatio returns
\* "w:h" with w and h coprime and w * height = h * width; each preset gives
\* its fixed ratio; an absent size, a zero dimension or an unknown preset
\* gives no value, and the request then has no aspect_ratio field (and has
\* the value in that field otherwise).
C24_AspectRatioReduced ==
    ImageMapped =>
        LET size == call.job.size
            ratio == call.result.ratio
            input == call.result.input IN
        /\ (size.kind = "dims" /\ size.width > 0 /\ size.height > 0) =>
              \E w \in 1..MaxDim, h \in 1..MaxDim :
                  /\ ratio = ToString(w) \o ":" \o ToString(h)
                  /\ Coprime(w, h)
                  /\ w * size.height = h * size.width
        /\ (size.kind = "preset" /\ size.name \in DOMAIN PresetRatio) =>
              ratio = PresetRatio[size.name]
        /\ (\/ size.kind = "absent"
            \/ size.kind = "dims" /\ (size.width = 0 \/ size.height = 0)
            \/ size.kind = "preset" /\ size.name \notin DOMAIN PresetRatio) =>
                ratio = Undefined /\ "aspect_ratio" \notin DOMAIN input
        /\ ratio # Undefined =>
              "aspect_ratio" \in DOMAIN input /\ input["aspect_ratio"] = ratio

\* 12 x 8 is reduced to 3:2 and sent
C24_Witness ==
    /\ ImageMapped
    /\ call.job.size = Dims(12, 8)
    /\ call.result.ratio = "3:2"
    /\ call.result.input["aspect_ratio"] = "3:2"

\* a zero dimension gives a request without aspect_ratio
C24_WitnessAbsent ==
    /\ ImageMapped
    /\ call.job.size = Dims(0, 8)
    /\ "aspect_ratio" \notin DOMAIN call.result.input

FilesNamed == call # Null /\ call.kind = "file" /\ call.result # Null

\* C25: two jobs that differ in the storage path hint, the model id, the
\* creation timestamp or the job id are given different file names.
C25_FileNamesDistinct ==
    FilesNamed =>
        (call.first # call.second => call.result.first # call.result.second)

\* names differing only in the case of the download folder collide
C25_CaseCollision ==
    FilesNamed =>
        ~(/\ call.first.storagePath = <<"R", "x">>
          /\ call.second = [call.first EXCEPT !.storagePath = <<"r", "x">>]
          /\ call.result.first = call.result.second)

\* names of jobs whose ids differ before the last six characters collide
C25_IdCollision ==
    FilesNamed =>
        ~(/\ call.first.id[5] = "1" /\ call.second.id[5] = "2"
          /\ call.second = [call.first EXCEPT !.id = call.second.id]
          /\ call.result.first = call.result.second)

\* C26: at every state no two jobs of the history have the same id, the
\* jobs admitted by rehydration included.
C26_UniqueIds ==
    \A i \in 1..Len(jobs), j \in 1..Len(jobs) :
        i # j => jobs[i].id # jobs[j].id

\* C26 (second half): no step changes the id of a job of the history; the
\* job at distance k from the end of the list keeps its id.
C26_IdsKept ==
    [][jobs # <<>> =>
          /\ Len(jobs') >= Len(jobs)
          /\ \A k \in 0..(Len(jobs) - 1) :
                jobs'[Len(jobs') - k].id = jobs[Len(jobs) - k].id]_vars

\* C27: the event log of a job never holds more than the ten messages of
\* the tail that is kept, however many status messages the provider emits.
C27_EventLogBounded ==
    \A i \in 1..Len(jobs) : Len(jobs[i].events) <= 10

\* C27 (the persisted log): an entry of the index holds at most ten
\* messages
C27_StoredLogBounded ==
    \A i \in 1..Len(stored.items) : Len(stored.items[i].events) <= 10

\* a job with eleven messages in memory is in the index with ten
C27_StoredTail ==
    /\ Len(jobs) = 1 /\ Len(jobs[1].events) = 11
    /\ Len(stored.items) = 1 /\ Len(stored.items[1].events) = 10

\* the writes to a key among the first n completed operations
WritesBefore(n, key) ==
    {i \in 1..(n - 1) :
        history[i].key = key /\ history[i].op \in {"save", "delete"}}

\* what the last of them left under the key
LastWritten(n, key) ==
    LET writes == WritesBefore(n, key) IN
        IF writes = {} THEN Undefined
        ELSE LET last == CHOOSE i \in writes : \A j \in writes : j <= i IN
                 IF history[last].op = "save" THEN history[last].blob
                 ELSE Undefined

\* C28: a completed getVideo(k) returns the blob of the last saveVideo(k, b)
\* completed before it (last write wins), and nothing if no saveVideo(k, ..)
\* completed before it or a deleteVideo(k) completed since; and a completed
\* operation on one key leaves the record of every other key as it was.
C28_StoreIsAMap ==
    /\ [](\A n \in 1..Len(history) :
            history[n].op = "get" =>
                history[n].result = LastWritten(n, history[n].key))
    /\ [][\A key \in VideoKeys :
            (Len(history') = Len(history) + 1
             /\ history'[Len(history')].key # key) =>
                get(videos'.records, key) = get(videos.records, key)]_vars

\* k1 was saved twice, read, deleted and read again: the second blob, then
\* nothing
C28_Witness ==
    /\ Len(history) = 4
    /\ history[1] = [op |-> "save", key |-> "k1", blob |-> "blob-1",
                      result |-> Undefined]
    /\ history[2] = [op |-> "save", key |-> "k1", blob |-> "blob-2",
                      result |-> Undefined]
    /\ history[3].op = "get" /\ history[3].key = "k1"
    /\ history[3].result = "blob-2"
    /\ history[4].op = "delete"

\* a key keeps its blob while another key is saved and deleted
C28_WitnessOtherKey ==
    /\ Len(history) = 4
    /\ history[1].op = "save" /\ history[1].key = "k2"
    /\ history[2].op = "save" /\ history[2].key = "k1"
    /\ history[3].op = "delete" /\ history[3].key = "k1"
    /\ history[4].op = "get" /\ history[4].key = "k2"
    /\ history[4].result = history[1].blob

\* the POSTs of a name answered 200 among the first n requests
StoredBefore(n, name) ==
    {i \in 1..(n - 1) :
        /\ history[i].method = "POST" /\ history[i].name = name
        /\ history[i].response.status = 200}

LastStored(n, name) ==
    CHOOSE i \in StoredBefore(n, name) :
        \A j \in StoredBefore(n, name) : j <= i

\* the bytes the text of a POST stands for
BytesOf == [n \in {"QQ==", "Qg=="} |-> IF n = "QQ==" THEN <<65>> ELSE <<66>>]

\* a GET of a name stored before answers 200 with the bytes of the last
\* POST of the name that was answered 200
StoredIsServed(n) ==
    StoredBefore(n, history[n].name) # {} =>
        /\ history[n].response.status = 200
        /\ history[n].response.body =
              BytesOf[history[LastStored(n, history[n].name)].data]

NeverDeletes == \A target \in DOMAIN files : target \in DOMAIN files'

RefusedPath(name) ==
    \/ name = <<>>
    \/ \E i \in 1..Len(name) : name[i] = "\\"
    \/ \E i \in 1..(Len(name) - 1) : name[i] = "." /\ name[i + 1] = "."
    \/ name[1] = "/"

\* the stored name a path stands for: a leading "./" does not count
Plain(name) ==
    IF Len(name) > 2 /\ name[1] = "." /\ name[2] = "/"
    THEN SubSeq(name, 3, Len(name))
    ELSE name

C29_WitnessKept ==
    /\ Len(history) = 3
    /\ history[1].method = "POST" /\ history[1].name = <<"a">>
    /\ history[1].response.status = 200 /\ history[1].data = "QQ=="
    /\ history[2].method = "POST" /\ history[2].name = <<"a">>
    /\ history[2].response.status = 400
    /\ history[3].method = "GET" /\ history[3].name = <<"a">>
    /\ history[3].response = Response(200, <<65>>)

\* the positions of the jobs a step starts
StartedAt ==
    {i \in 1..Len(jobs) :
        /\ jobs[i].status = "queued"
        /\ Len(jobs') = Len(jobs)
        /\ jobs'[i].status = "running"}

\* C30: a step starts at most one job, and the job it starts is the queued
\* job nearest the front of the list, which is the most recently submitted
\* of the queued jobs.
C30_FrontQueuedJobStarts ==
    [][/\ Cardinality(StartedAt) <= 1
       /\ \A i \in StartedAt :
            /\ Cardinality(runningJobs) < MAX_CONCURRENT_JOBS
            /\ \A k \in 1..Len(jobs) :
                 (k # i /\ jobs[k].status = "queued") =>
                     /\ i < k
                     /\ jobs[i].createdAt > jobs[k].createdAt]_vars

\* two jobs are queued, a slot is free, and the effects are due
C30_WitnessBefore ==
    /\ Len(jobs) >= 2
    /\ jobs[1].status = "queued" /\ jobs[2].status = "queued"
    /\ jobs[1].id \notin runningJobs /\ jobs[2].id \notin runningJobs
    /\ Cardinality(runningJobs) < MAX_CONCURRENT_JOBS
    /\ jobsInitialized /\ effectsPending

\* the tick has started the newer of two jobs and left the older queued
C30_Witness ==
    /\ Len(jobs) >= 2
    /\ jobs[1].status = "running" /\ jobs[1].attempts = 1
    /\ jobs[2].status = "queued" /\ jobs[2].attempts = 0
    /\ runningJobs = {jobs[1].id}
    /\ effectsPending

\* what the parameter loop resolves for a parameter that is no enum
Resolved(i) ==
    IF PayloadValue(i) # Undefined THEN PayloadValue(i) ELSE Defn(i).default

\* the parameters the end-reference gating is about: those fed from the
\* end reference and those under a provider name for it
EndReferenceParam(i) ==
    \/ i \in EndParamIndexes
    \/ Defn(i).key \in {"tail_image_url", "last_frame_url"}

\* the failure clause of C31: a required parameter with neither value nor
\* default makes buildFalInput fail, the error naming the first such
\* parameter
PlainFailure(i) ==
    Lacks(i) =>
        /\ ~call.result.ok
        /\ call.result.input = <<>>
        /\ (\A k \in 1..(i - 1) : ~Lacks(k)) =>
              call.result.error =
                  "Missing required param: " \o FieldOf(i) \o " -> "
                      \o Defn(i).key

\* C31 as stated: for every parameter that is no enum, the field of the
\* built request is the payload's mapped field when defined, else the
\* default when defined, else it is left out; a required parameter with
\* neither makes buildFalInput fail.
C31_PlainParamResolution ==
    GenericBuilt =>
        \A i \in PlainParams :
            /\ (call.result.ok /\ Resolved(i) # Undefined) =>
                  /\ Defn(i).key \in DOMAIN call.result.input
                  /\ call.result.input[Defn(i).key] = Resolved(i)
            /\ (call.result.ok /\ Resolved(i) = Undefined) =>
                  Defn(i).key \notin DOMAIN call.result.input
            /\ PlainFailure(i)

\* C31 (amended): as stated, for every parameter that is no enum and is
\* not an end-reference parameter; the end-reference field is subject to
\* the gating, which may remove it after it was resolved.
C31_PlainParamResolutionGated ==
    GenericBuilt =>
        \A i \in PlainParams :
            /\ ~EndReferenceParam(i) =>
                /\ (call.result.ok /\ Resolved(i) # Undefined) =>
                      /\ Defn(i).key \in DOMAIN call.result.input
                      /\ call.result.input[Defn(i).key] = Resolved(i)
                /\ (call.result.ok /\ Resolved(i) = Undefined) =>
                      Defn(i).key \notin DOMAIN call.result.input
            /\ PlainFailure(i)

\* the payload's duration has won over the default
C31_Witness ==
    /\ GenericBuilt /\ call.result.ok
    /\ Defn(3).default = "5" /\ call.unified.duration = "10"
    /\ call.result.input["duration"] = "10"
    /\ call.result.input["prompt"] = Prompt
    /\ call.result.input["image_url"] = UploadUrl

\* the default stands in for a missing duration
C31_WitnessDefault ==
    /\ GenericBuilt /\ call.result.ok
    /\ call.unified.duration = Undefined
    /\ Defn(3).default = "5"
    /\ call.result.input["duration"] = "5"

\* a required duration without value and default has failed the call
C31_WitnessFails ==
    /\ GenericBuilt /\ ~call.result.ok
    /\ call.result.error = "Missing required param: duration -> duration"

\* ---------------------------------------------------------------------
\* The event log of a job

\* log t is log s with further messages after it
Extends(s, t) ==
    /\ Len(s) <= Len(t)
    /\ \A k \in 1..Len(s) : t[k] = s[k]

\* t is the last entries of s, at most ten, in the order of s
IsLastTen(t, s) ==
    /\ Len(t) = (IF Len(s) < 10 THEN Len(s) ELSE 10)
    /\ \A k \in 0..(Len(t) - 1) : t[Len(t) - k] = s[Len(s) - k]

\* the jobs whose log differs after the step
LogChanged ==
    {id \in JobIds :
        /\ HasJob(jobs, id) /\ HasJob(jobs', id)
        /\ JobById(jobs', id).events # JobById(jobs, id).events}

\* a step appends to the log of one executing job, or leaves the logs alone
LogGrowsByAppending ==
    /\ \A id \in JobIds : (HasJob(jobs, id) /\ HasJob(jobs', id)) =>
           Extends(JobById(jobs, id).events, JobById(jobs', id).events)
    /\ \A id \in LogChanged :
           /\ pc[id] = "run"
           /\ Len(JobById(jobs', id).events) = Len(JobById(jobs, id).events) + 1
           /\ LogChanged = {id}

\* a write of the index stores of each job the last messages of its log
IndexHoldsLastTen ==
    stored' # stored =>
        \A k \in 1..Len(stored'.items) :
            /\ HasJob(jobs, stored'.items[k].id)
            /\ IsLastTen(stored'.items[k].events,
                         JobById(jobs, stored'.items[k].id).events)

\* the page load gives each job of the index the log the index holds
RehydrationRestoresLog ==
    (~jobsInitialized /\ jobsInitialized' /\ stored.kind = "array") =>
        /\ Len(jobs') = Len(stored.items)
        /\ \A k \in 1..Len(stored.items) :
               /\ jobs'[k].id = stored.items[k].id
               /\ jobs'[k].events = stored.items[k].events

\* C32: the messages the provider sends during an execution are appended to
\* the log of the executing job in the order they arrive, and to that job
\* only; no entry of a log is removed or reordered, across a retry too; the
\* log written to the index, and restored by the page load, is the last at
\* most ten entries of the log in the same order.
C32_EventLogAppendOnly ==
    /\ [][LogGrowsByAppending]_vars
    /\ [][IndexHoldsLastTen]_vars
    /\ [][RehydrationRestoresLog]_vars

LastTenUpdates ==
    <<"update-2", "update-3", "update-4", "update-5", "update-6",
      "update-7", "update-8", "update-9", "update-10", "update-11">>

\* eleven messages over two executions, the last ten of them in the index
C32_Witness ==
    \E i \in 1..Len(jobs) :
        /\ jobs[i].attempts = 2
        /\ Len(jobs[i].events) = 11
        /\ jobs[i].events[1] = "update-1"
        /\ SubSeq(jobs[i].events, 2, 11) = LastTenUpdates
        /\ \E k \in 1..Len(stored.items) :
               /\ stored.items[k].id = jobs[i].id
               /\ stored.items[k].events = LastTenUpdates

\* the page load has restored these ten
C32_WitnessRestored ==
    /\ Len(jobs) > 0 /\ jobs[1].saved /\ jobs[1].payload = NoPayload
    /\ jobs[1].events = LastTenUpdates

\* two jobs with a log each
C32_WitnessTwoLogs ==
    /\ Len(jobs) = 2
    /\ Len(jobs[1].events) > 0 /\ Len(jobs[2].events) > 0

\* ---------------------------------------------------------------------
\* The payload of a job

PayloadByStatus ==
    \A i \in 1..Len(jobs) :
        /\ jobs[i].status = "uploading" => jobs[i].payload = NoPayload
        /\ jobs[i].status \in {"queued", "running"} =>
              /\ jobs[i].payload # NoPayload
              /\ jobs[i].payload.start_frame_url \notin {Undefined, ""}

PayloadKept ==
    \A id \in JobIds :
        (HasJob(jobs, id) /\ HasJob(jobs', id)
            /\ JobById(jobs, id).payload # NoPayload) =>
        JobById(jobs', id).payload = JobById(jobs, id).payload

\* C33: a job in status uploading has no payload, a job in status queued or
\* running has a payload whose start reference URL is not empty, and the
\* payload a job has got from enqueueJob is never changed or removed by a
\* later step (execution, failure, retry).
C33_PayloadAttachedOnce ==
    /\ []PayloadByStatus
    /\ [][PayloadKept]_vars

\* a retried job runs a second time on the payload it was queued with
C33_Witness ==
    \E i \in 1..Len(jobs) :
        /\ jobs[i].status = "running" /\ jobs[i].attempts = 2
        /\ jobs[i].payload # NoPayload
        /\ jobs[i].payload.start_frame_url = UploadUrl

\* a job is uploading, without payload, while another is queued with one
C33_WitnessUploading ==
    \E i, k \in 1..Len(jobs) :
        /\ jobs[i].status = "uploading" /\ jobs[i].payload = NoPayload
        /\ jobs[k].status = "queued" /\ jobs[k].payload # NoPayload

\* ---------------------------------------------------------------------
\* One execution of a job at a time

InFlight(id) == pc[id] \in {"run", "fetch", "save", "twice"}

\* the step starts an execution of job id
Starts(id) ==
    \/ pc[id] = "idle" /\ pc'[id] = "run"
    \/ pc[id] # "twice" /\ pc'[id] = "twice"

LastTwo(s) == SubSeq(s, Len(s) - 1, Len(s))

StartsOnlyWhenEnded ==
    \A id \in JobIds : Starts(id) =>
        /\ ~InFlight(id)
        /\ id \notin runningJobs
        /\ JobById(jobs, id).status = "queued"
        /\ JobById(jobs, id).attempts > 0 =>
               LastTwo(trace[id]) = <<"error", "queued">>

\* C34: no job has two executions in flight; an execution of a job starts
\* only when no execution of it is in flight, and after the first one only
\* when the one before has ended in failure and a retry has queued the job
\* again - a tick that runs on a job list in which the start does not show
\* yet included.
C34_OneExecutionPerJob ==
    /\ [](\A id \in JobIds : pc[id] # "twice")
    /\ [][StartsOnlyWhenEnded]_vars

\* two jobs started one after the other are in flight, each in its one
\* execution, before the index was written once
C34_Witness ==
    \E i, k \in 1..Len(jobs) :
        /\ i # k
        /\ jobs[i].status = "running" /\ pc[jobs[i].id] = "run"
        /\ jobs[k].status = "running" /\ pc[jobs[k].id] = "run"
        /\ effectsPending /\ stored = EmptySlot
        /\ trace[jobs[i].id] = <<"uploading", "queued", "running">>
        /\ trace[jobs[k].id] = <<"uploading", "queued", "running">>

\* a retried job is in its second execution
C34_WitnessRetried ==
    \E i \in 1..Len(jobs) :
        /\ pc[jobs[i].id] = "run" /\ jobs[i].attempts = 2
        /\ jobs[i].id \in runningJobs

\* ---------------------------------------------------------------------
\* The index at startup

\* the index is written only once it has been read
ReadBeforeWritten == stored' # stored => jobsInitialized

\* a record that carries every field the program writes, in its type
CompleteRecord(entry) ==
    /\ entry.id # NoId /\ entry.createdAt # NoTime
    /\ IsString(entry.modelId) /\ IsString(entry.prompt)
    /\ IsString(entry.storagePath)

\* the fields of record e that are of their type are the same in record f
KeepsWhatIsThere(e, f) ==
    /\ f.localKey = e.localKey /\ f.localUrl = e.localUrl
    /\ e.id # NoId => f.id = e.id
    /\ e.createdAt # NoTime => f.createdAt = e.createdAt
    /\ IsString(e.modelId) => f.modelId = e.modelId
    /\ IsString(e.prompt) => f.prompt = e.prompt
    /\ IsString(e.storagePath) => f.storagePath = e.storagePath

\* positions of the valid records of the index
ValidAt(slot) == {k \in 1..Len(slot.items) : Admissible(slot.items[k])}

C35_WitnessBare ==
    /\ jobsInitialized /\ ~effectsPending
    /\ Len(jobs) = 1 /\ Len(stored.items) = 1
    /\ stored.items[1].localKey = "file-0"
    /\ stored.items[1].id # 0 /\ stored.items[1].id # NoId
    /\ stored.items[1].prompt = ""

\* ---------------------------------------------------------------------
\* The save flags of a job

\* C36: in every state and for every job, saving and saved are not both
\* true; saving or saved implies status success; saved implies that the
\* durable key and the local access URL are set; a local access URL is set
\* only if saved; a save error is set only if not saved.
C36_SaveFlagsConsistent ==
    \A i \in 1..Len(jobs) :
        /\ ~(jobs[i].saving /\ jobs[i].saved)
        /\ (jobs[i].saving \/ jobs[i].saved) => jobs[i].status = "success"
        /\ jobs[i].saved =>
              /\ jobs[i].localKey \notin {Undefined, ""}
              /\ jobs[i].localUrl \notin {Undefined, ""}
        /\ jobs[i].localUrl # Undefined => jobs[i].saved
        /\ jobs[i].saveError # Undefined => ~jobs[i].saved

\* a job being saved, a job saved by this page and a job taken from the
\* index, in one history
C36_Witness ==
    \E i, k, m \in 1..Len(jobs) :
        /\ jobs[i].saving /\ ~jobs[i].saved /\ jobs[i].localUrl = Undefined
        /\ jobs[k].saved /\ jobs[k].attempts = 1 /\ jobs[k].payload # NoPayload
        /\ jobs[k].localUrl # Undefined
        /\ jobs[m].saved /\ jobs[m].payload = NoPayload

\* a save has failed: the job is a success, not saved, with the save error
C36_WitnessSaveFailed ==
    \E i \in 1..Len(jobs) :
        /\ jobs[i].status = "success" /\ ~jobs[i].saving /\ ~jobs[i].saved
        /\ jobs[i].saveError # Undefined /\ jobs[i].localUrl = Undefined

\* ---------------------------------------------------------------------
\* The asset endpoints stay in the out directory

\* a path relative to the out directory that is a file below it
Inside(target) == target # <<>> /\ target[1] # <<".", ".">>

HasChar(name, c) == \E i \in 1..Len(name) : name[i] = c

HasDotDot(name) ==
    \E i \in 1..(Len(name) - 1) : name[i] = "." /\ name[i + 1] = "."

\* the request the claim says is refused
MustBeRefused(request) ==
    IF request.method = "POST"
    THEN \/ HasDotDot(request.name) \/ HasChar(request.name, "/")
         \/ HasChar(request.name, "\\")
         \/ request.name = <<>> \/ request.data = ""
    ELSE \/ request.name = <<>> \/ request.name[1] = "/"
         \/ HasDotDot(request.name) \/ HasChar(request.name, "\\")

\* the request answered in this step
Answered == history'[Len(history')]

\* C37: the asset endpoints never read or write outside the out directory:
\* every stored file is below it; a POST whose name contains "..", "/" or a
\* backslash or that lacks name or data, and a GET whose decoded path is
\* empty, absolute or contains ".." or a backslash, is answered 400 with
\* nothing returned; and a request that is not answered 200 leaves every
\* stored file as it was.
C37_AssetsStayInside ==
    /\ [](\A target \in DOMAIN files : Inside(target))
    /\ [](\A n \in 1..Len(history) :
            /\ MustBeRefused(history[n]) =>
                  /\ history[n].response.status = 400
                  /\ history[n].response.body = <<>>
            /\ history[n].response.status = 200 =>
                  Inside(join(history[n].name)))
    /\ [][Len(history') > Len(history) =>
             /\ MustBeRefused(Answered) => files' = files
             /\ Answered.response.status # 200 => files' = files]_vars

\* a file is stored, then a POST of "../a" and a GET of "../a" are refused
\* and the file is as it was
C37_Witness ==
    /\ Len(history) = 3
    /\ history[1].method = "POST" /\ history[1].name = <<"a">>
    /\ history[1].response.status = 200
    /\ history[2].method = "POST" /\ history[2].data = "Qg=="
    /\ history[2].name = <<".", ".", "/", "a">>
    /\ history[2].response.status = 400
    /\ history[3].method = "GET" /\ history[3].name = <<".", ".", "/", "a">>
    /\ history[3].response.status = 400
    /\ DOMAIN files = {<<<<"a">>>>} /\ files[<<<<"a">>>>] = <<65>>

\* a POST without data is refused
C37_WitnessNoData ==
    /\ Len(history) = 1 /\ history[1].method = "POST"
    /\ history[1].name = <<"a">> /\ history[1].data = ""
    /\ history[1].response.status = 400 /\ DOMAIN files = {}

\* ---------------------------------------------------------------------
\* Generations of the image tab

\* the step is a call of the Generate handler
Clicked == call'.clicks = call.clicks + 1

\* the step is the return of a generation; Ended is that generation
Returns == Len(call'.ended) = Len(call.ended) + 1

Ended == call'.ended[Len(call'.ended)]

EndedFlight == CHOOSE flight \in call.flights : flight.id = Ended.id

BusyIsNoOp == (Clicked /\ call.busy) => call' = [call EXCEPT !.clicks = @ + 1]

\* C38: at most one generation of the image tab is in flight; a call of
\* generate while busy changes nothing; when a generation returns, busy is
\* false, after a failure the renders are as before and after a success the
\* render of the generation is in front of the renders there were; busy is
\* true only while a generation is in flight.
C38_OneGenerationInFlight ==
    /\ [](Cardinality(call.flights) <= 1)
    /\ [](call.busy => call.flights # {})
    /\ [][BusyIsNoOp]_vars
    /\ [][Returns =>
             /\ ~call'.busy
             /\ call'.renders = IF Ended.ok
                                 THEN <<Ended.id>> \o call.renders
                                 ELSE call.renders]_vars

\* C38, for one instance of the component: an instance has at most one
\* generation in flight, a call of generate while busy changes nothing, and
\* a generation that returns in the instance that is on the page resets
\* busy and, if it succeeded, puts its one render in front.
C38_OneGenerationPerInstance ==
    /\ [](\A i \in 1..MaxMounts :
            Cardinality({flight \in call.flights : flight.owner = i}) <= 1)
    /\ []((call.mounted /\ call.busy) =>
            \E flight \in call.flights : flight.owner = call.instance)
    /\ [][BusyIsNoOp]_vars
    /\ [][(Returns /\ Live(call, EndedFlight)) =>
             /\ ~call'.busy
             /\ call'.renders = IF Ended.ok
                                 THEN <<Ended.id>> \o call.renders
                                 ELSE call.renders]_vars

\* the tab was closed and opened during a generation and Generate was
\* pressed again: two generations are in flight
C38_TwoInFlight ==
    /\ call.mounted /\ call.busy /\ call.instance = 2
    /\ Cardinality(call.flights) = 2

\* a generation has succeeded after its tab was closed: no render
C38_RenderLost ==
    /\ Len(call.ended) = 1 /\ call.ended[1].ok
    /\ call.renders = <<>>

\* within one instance: one failure, then one success with its render
C38_WitnessInstance ==
    /\ call.mounted /\ call.instance = 1 /\ ~call.busy
    /\ call.flights = {}
    /\ Len(call.ended) = 2 /\ ~call.ended[1].ok /\ call.ended[2].ok
    /\ call.renders = <<2>>

====
